---- MODULE Spec2Model ----
(***************************************************************************)
(* Event queue, blocking read, hook dispatch and value collection of       *)
(* TkEasyGUI.Window (src/TkEasyGUI/widgets.py).                            *)
(*                                                                         *)
(* One window with a fixed, already constructed layout is modelled.  The   *)
(* Tk main loop is the suspension point of Window.read: ReadStart runs     *)
(* read up to root.mainloop(), ReadWake runs one pass of the loop body     *)
(* from the return of root.mainloop() to the next root.mainloop() or to    *)
(* the return of read.  Everything else (user interaction, bindings,       *)
(* programmatic injection, hook registration) interleaves with it.         *)
(***************************************************************************)
EXTENDS Integers, Sequences, FiniteSets, TLC

(***************************************************************************)
(* Bounds of the model.                                                    *)
(***************************************************************************)
MaxQueue == 2       \* entries waiting in the queue at one time
MaxHooks == 2       \* handlers registered by the application, over all names
MaxTimeout == 1     \* largest timeout (ms) passed to read
SubMs == 2          \* clock steps per millisecond

(***************************************************************************)
(* Program constants.                                                      *)
(***************************************************************************)
WINDOW_CLOSED == "WINDOW_CLOSED"
WINDOW_TIMEOUT == "-TIMEOUT-"
HIDE_SUFFIX == "/hide"
STOPPED_SUFFIX == "-stopped"

(***************************************************************************)
(* The layout: key_elements in insertion order, and has_value of each.     *)
(* "a" and "b" are value-capable, "ok" is an explicitly keyed button.      *)
(***************************************************************************)
KeyOrder == <<"a", "ok", "b">>
Keys == {KeyOrder[i] : i \in 1..Len(KeyOrder)}
has_value == [k \in Keys |-> k \in {"a", "b"}]
ValueKeys == {k \in Keys : has_value[k]}
Vals == {"v0", "v1"}

EmptyMap == [k \in {} |-> "v0"]

\* dict.update semantics: entries of over win over entries of base
Overlay(base, over) ==
    [k \in DOMAIN base \cup DOMAIN over |->
        IF k \in DOMAIN over THEN over[k] ELSE base[k]]

\* str.endswith
EndsWith(s, suffix) ==
    /\ Len(s) >= Len(suffix)
    /\ SubSeq(s, Len(s) - Len(suffix) + 1, Len(s)) = suffix

\* one statement after the other: v is computed once, then F of it
Then(v, F(_)) == CHOOSE r \in {F(x) : x \in {v}} : TRUE

VARIABLES
    events,         \* Window.events: FIFO of [key, values]
    event_hooks,    \* Window._event_hooks: name -> list of handlers
    last_values,    \* Window.last_values
    flag_alive,     \* Window.flag_alive
    timeout,        \* Window.timeout: [some, ms]
    timeout_key,    \* Window.timeout_key
    timeout_id,     \* TRUE while the idle wake scheduled by read is pending
    quit,           \* root.quit() was called inside the running main loop
    pc,             \* "idle": outside read, "mainloop": read is in root.mainloop()
    elapsed,        \* clock steps since time_checker_start() of this read
    wval,           \* current value of the widget of each value-capable element
    broken,         \* value-capable elements whose accessor get() raises
    regDone,        \* the registering handler has already registered its hook
    good,           \* history: the values of the latest get_values pass in
                    \* which no accessor raised
    last,           \* history: the pass of the read loop made by the step
                    \* that led to this state
    disp,           \* history: the hook dispatch made by that step
    gv,             \* history: the get_values pass made by that step
    fired,          \* history: the firing of a bound interaction made by that step
    last_rule,      \* history: <<element, event name>> -> the rule of the latest bind call
    element_keys,   \* the process-wide registry of element keys
    next_id,        \* the counter of generate_element_id
    elems,          \* the elements constructed so far, in construction order
    built,          \* "declaring" before Window.__init__, then its outcome
    init,           \* history: the outcome of the latest element constructor call
    key_order,      \* Window.key_elements: its keys in insertion order
    key_elements,   \* Window.key_elements: key -> element
    radio_group_dict, \* Window.radio_group_dict: group id -> [var, counter, owner]
    selected,       \* history: group id -> the member selected last
    destroyed,      \* the native window has been destroyed
    window_stack,   \* the process-wide stack of open windows
    downs,          \* history: the number of times flag_alive went true -> false
    cancels,        \* history: the number of cancel_close calls
    closed,         \* history: close() has returned on the window
    peer,           \* a second window of the process: its queue (events), the
                    \* position of its read (pc), its pending idle wake (wake)
                    \* and, as history, the entry its read returned last (ret)
    idle_wakes,     \* the _window_idle_handler callbacks pending in Tk's idle queue
    focus_wake,     \* a _focus_window callback is pending in Tk's idle queue
    need_focus_widget, \* Window.need_focus_widget: an element, or 0 for None
    focused,        \* history: the number of focus_set() calls of _focus_window
    iter            \* the generator of Window.event_iter: "new", "reading"
                    \* (inside its read call), "suspended" (at its yield), "done"

buildVars == <<element_keys, next_id, elems, built, init, key_order,
               key_elements, radio_group_dict, selected, last_rule>>
closeVars == <<destroyed, window_stack, downs, cancels, closed, peer>>
loopVars == <<idle_wakes, focus_wake, need_focus_widget, focused, iter>>

vars == <<events, event_hooks, last_values, flag_alive, timeout, timeout_key,
          timeout_id, quit, pc, elapsed, wval, broken, regDone, good, last,
          disp, gv, fired, buildVars, closeVars, loopVars>>

NoEntry == [key |-> "", values |-> EmptyMap]
NoTimeout == [some |-> FALSE, ms |-> 0]

(***************************************************************************)
(* Window.get_values (widgets.py 610-624).                                 *)
(***************************************************************************)
\* the loop over key_elements.items(): the values dict built so far, and
\* whether an accessor raised
RECURSIVE CollectFrom(_, _, _, _)
CollectFrom(i, acc, wv, br) ==
    IF i > Len(KeyOrder) THEN [ok |-> TRUE, values |-> acc]
    ELSE LET k == KeyOrder[i] IN
         IF ~has_value[k] THEN CollectFrom(i + 1, acc, wv, br)
         ELSE IF k \in br THEN [ok |-> FALSE, values |-> acc]
         ELSE CollectFrom(i + 1, Overlay(acc, [x \in {k} |-> wv[k]]), wv, br)

\* a slip: the except branch returns the dict built so far
get_values_partial(wv, br, lastv) ==
    LET c == CollectFrom(1, EmptyMap, wv, br) IN
    IF c.ok THEN [ok |-> TRUE, ret |-> c.values, last_values |-> c.values]
    ELSE [ok |-> FALSE, ret |-> c.values, last_values |-> lastv]

\* a slip: a successful pass does not replace the cache
get_values_nocache(wv, br, lastv) ==
    LET c == CollectFrom(1, EmptyMap, wv, br) IN
    IF c.ok THEN [ok |-> TRUE, ret |-> c.values, last_values |-> lastv]
    ELSE [ok |-> FALSE, ret |-> lastv, last_values |-> lastv]

\* ret: the returned dict; last_values: the cache after the call
get_values(wv, br, lastv) ==
    LET c == CollectFrom(1, EmptyMap, wv, br) IN
    IF c.ok THEN [ok |-> TRUE, ret |-> c.values, last_values |-> c.values]
    ELSE [ok |-> FALSE, ret |-> lastv, last_values |-> lastv]

\* the values a pass collects when no accessor raises
Snapshot(wv) == [k \in ValueKeys |-> wv[k]]

(***************************************************************************)
(* Window.register_event_hooks (widgets.py 271-294), one handler.          *)
(***************************************************************************)
register_event_hooks(eh, name, handle) ==
    IF name \in DOMAIN eh
    THEN [eh EXCEPT ![name] = Append(@, handle)]
    ELSE [n \in DOMAIN eh \cup {name} |-> IF n = name THEN <<handle>> ELSE eh[n]]

(***************************************************************************)
(* Hook handlers.  A handler is [h, n]: its behaviour and the serial       *)
(* number of its registration.                                             *)
(*   "pass": returns None                                                  *)
(*   "stop": returns True                                                  *)
(*   "reg":  the first time it runs it registers a "stop" handler for the  *)
(*           event being dispatched; returns None                          *)
(*   "close": the hook of CloseButton (1773-1785): calls Window.close()    *)
(*           and returns its result, None                                  *)
(*   "browse": the hook of a browse element (3280-3282), show_dialog; the  *)
(*           handler carries the key of the element, its enable_events and *)
(*           the key of its target ("": none); it returns the result of    *)
(*           the picker, which is never True                               *)
(***************************************************************************)
HandlerKinds == {"pass", "stop", "reg", "close", "browse"}

\* the number of registrations made so far
RECURSIVE SumLen(_, _)
SumLen(eh, names) ==
    IF names = {} THEN 0
    ELSE LET n == CHOOSE x \in names : TRUE
         IN Len(eh[n]) + SumLen(eh, names \ {n})
NumHooks(eh) == SumLen(eh, DOMAIN eh)

\* the value the handler returns
HandleResult(handle) == IF handle.h = "stop" THEN "True" ELSE "None"

EG_SWAP_EVENT_NAME == "--swap_event_name--"

\* Queue.put
Put(q, key, values) == Append(q, [key |-> key, values |-> values])

\* lines 638-639: the swap marker, if present, names the event and is
\* taken out of the values
SwapEventName(key, values) ==
    IF EG_SWAP_EVENT_NAME \in DOMAIN values
    THEN [key |-> values[EG_SWAP_EVENT_NAME],
          values |-> [x \in DOMAIN values \ {EG_SWAP_EVENT_NAME} |-> values[x]]]
    ELSE [key |-> key, values |-> values]

\* a slip: the entries of the context win over the values of the elements
_event_handler_ctxwins(q, key, ctx, wv, br, lastv) ==
    Then(get_values(wv, br, lastv), LAMBDA r :
        Then(SwapEventName(key, Overlay(r.ret, ctx)), LAMBDA e :
            [events |-> Put(q, e.key, e.values), r |-> r]))

\* Window._event_handler (widgets.py 630-642) on the queue q: the values of
\* get_values are written over the context (635-636), the swap marker names
\* the event and is taken out (638-639), and one entry is put (641).
\* events: the queue after the call; r: the get_values pass
_event_handler(q, key, ctx, wv, br, lastv) ==
    Then(get_values(wv, br, lastv), LAMBDA r :
        Then(SwapEventName(key, Overlay(ctx, r.ret)), LAMBDA e :
            [events |-> Put(q, e.key, e.values), r |-> r]))

\* the picker (dialogs.popup_get_file) returns None, "" or a path
NoPick == "<None>"
PickerResults == {NoPick, ""} \cup Vals

\* line 3316
BrowseContext(result) ==
    [x \in {"event", "event_type"} |-> IF x = "event" THEN result ELSE "change"]

\* _event_handler called by a hook, on the dispatch state
HookEventHandler(key, ctx, st) ==
    Then(_event_handler(st.put, key, ctx, st.wval, st.broken, st.last_values),
         LAMBDA h : [st EXCEPT !.put = h.events,
                               !.last_values = h.r.last_values,
                               !.r = h.r, !.collected = TRUE])

\* a slip: the change event is enqueued whether or not enable_events is set
show_dialog_always(handle, st) ==
    IF handle.target # "" /\ st.picked \notin {NoPick, ""}
    THEN HookEventHandler(handle.key, BrowseContext(st.picked),
             [st EXCEPT !.wval = [@ EXCEPT ![handle.target] = st.picked]])
    ELSE st

\* FileBrowse.show_dialog (widgets.py 3299-3318), the hook of a browse
\* element, on the dispatch state: with a target (get_prev_widget, 3301) and
\* a result that is neither None nor "", the target is updated (3314) and,
\* if enable_events is set, _event_handler is called (3315-3316).
\* put: the entries the hooks put in the queue
show_dialog(handle, st) ==
    IF handle.target # "" /\ st.picked \notin {NoPick, ""}
    THEN IF handle.enable_events
         THEN HookEventHandler(handle.key, BrowseContext(st.picked),
                  [st EXCEPT !.wval = [@ EXCEPT ![handle.target] = st.picked]])
         ELSE [st EXCEPT !.wval = [@ EXCEPT ![handle.target] = st.picked]]
    ELSE st

\* a slip: the hook of the close button does not close the window
HandleEffect_noclose(handle, key, st) ==
    IF handle.h = "reg" /\ ~st.regDone
    THEN [st EXCEPT !.hooks = register_event_hooks(@, key,
                                  [h |-> "stop", n |-> NumHooks(st.hooks) + 1]),
                    !.regDone = TRUE]
    ELSE IF handle.h = "browse" THEN show_dialog(handle, st)
    ELSE st

\* the side effect of calling the handler on the dispatch state; close:
\* Window.close() was called by a handler
HandleEffect(handle, key, st) ==
    IF handle.h = "reg" /\ ~st.regDone
    THEN [st EXCEPT !.hooks = register_event_hooks(@, key,
                                  [h |-> "stop", n |-> NumHooks(st.hooks) + 1]),
                    !.regDone = TRUE]
    ELSE IF handle.h = "close" THEN [st EXCEPT !.close = TRUE]
    ELSE IF handle.h = "browse" THEN show_dialog(handle, st)
    ELSE st

(***************************************************************************)
(* Window._dispatch_event_hooks (widgets.py 553-563).  The for loop over   *)
(* the list is Python's list iterator: an index into the live list, whose  *)
(* length is read again at every step.                                     *)
(***************************************************************************)
\* a slip: no break after a handler returned True
RECURSIVE DispatchFrom_nobreak(_, _, _)
DispatchFrom_nobreak(key, i, st) ==
    IF i > Len(st.hooks[key]) THEN st
    ELSE Then(HandleEffect(st.hooks[key][i], key,
                  [st EXCEPT !.called = Append(@, st.hooks[key][i])]),
              LAMBDA st1 :
                  DispatchFrom_nobreak(key, i + 1,
                      IF HandleResult(st.hooks[key][i]) = "True"
                      THEN [st1 EXCEPT !.flag_stop = TRUE] ELSE st1))

RECURSIVE DispatchFrom(_, _, _)
DispatchFrom(key, i, st) ==
    IF i > Len(st.hooks[key]) THEN st
    ELSE Then(HandleEffect(st.hooks[key][i], key,
                  [st EXCEPT !.called = Append(@, st.hooks[key][i])]),
              LAMBDA st1 :
                  IF HandleResult(st.hooks[key][i]) = "True"
                  THEN [st1 EXCEPT !.flag_stop = TRUE]
                  ELSE DispatchFrom(key, i + 1, st1))

\* st: [hooks, regDone] and what the handlers act on: the values of the
\* widgets, the failing accessors, last_values, and the answer the picker
\* will give; the result adds flag_stop, the handlers called, in call
\* order, and the effects of the handlers
_dispatch_event_hooks(key, st) ==
    LET st0 == [hooks |-> st.hooks, regDone |-> st.regDone,
                flag_stop |-> FALSE, called |-> <<>>, close |-> FALSE,
                wval |-> st.wval, broken |-> st.broken,
                last_values |-> st.last_values, picked |-> st.picked,
                put |-> <<>>, collected |-> FALSE,
                r |-> [ok |-> TRUE, ret |-> st.last_values,
                       last_values |-> st.last_values]]
    IN IF key \in DOMAIN st.hooks THEN DispatchFrom(key, 1, st0) ELSE st0

(***************************************************************************)
(* Inputs of the operations.                                               *)
(***************************************************************************)
\* an interaction context
Context == [x \in {"event"} |-> "e"]
\* rules of the binding table: element key, handler suffix, mode
BindClick == [elem |-> "ok", handle_name |-> "-click", event_mode |-> "user"]
BindHide == [elem |-> "ok", handle_name |-> HIDE_SUFFIX, event_mode |-> "user"]
BindSystem == [elem |-> "a", handle_name |-> "change", event_mode |-> "system"]
Bindings == {BindClick, BindHide, BindSystem}
\* the values injected with Window.write_event_value
WriteValues == [x \in {"x"} |-> "1"]
\* event names hooks are registered for
HookNames == {"ok", "ok" \o HIDE_SUFFIX}
\* arguments of Window.read
Timeouts == {NoTimeout} \cup {[some |-> TRUE, ms |-> m] : m \in 0..MaxTimeout}
\* read without a timeout, or with the timeout 0
ShortTimeouts == {NoTimeout, [some |-> TRUE, ms |-> 0]}
TimeoutKey == "tick"

(***************************************************************************)
(* Elements.  A key is [some, k]: None is [some |-> FALSE].  An element is *)
(* a record of the attributes Element.__init__ and the subclass            *)
(* constructors set; parent is the container whose layout holds it (0: the *)
(* layout of the window), and the children of a container form one row.    *)
(***************************************************************************)
NoKey == [some |-> FALSE, k |-> ""]
Key(k) == [some |-> TRUE, k |-> k]

\* str(group_id) of Radio.__init__: a group id is given as an int or a str
Str(g) == g.s

\* the key registry of utils: a key that is already registered is an error
register_element_key(reg, k) ==
    IF k \in reg THEN [raised |-> TRUE, keys |-> reg]
    ELSE [raised |-> FALSE, keys |-> reg \cup {k}]

\* the id generator of utils: a fresh id at every call
generate_element_id(n) == "-id-" \o ToString(n)

NoBinds == [n \in {} |-> <<>>]

\* a slip: a value-capable element without a key keeps the key None
Element_nogen(reg, nid, kind, key, hv) ==
    LET r == IF key.some THEN register_element_key(reg, key.k)
             ELSE [raised |-> FALSE, keys |-> reg]
    IN [raised |-> r.raised, element_keys |-> r.keys, next_id |-> nid,
        elem |-> [kind |-> kind, has_value |-> hv, has_children |-> FALSE,
                  key |-> key, explicit |-> FALSE, parent |-> 0,
                  shape |-> "", text_align |-> "left", group_id |-> "",
                  default_value |-> FALSE, value |-> 0, window |-> FALSE,
                  created |-> FALSE, bind_dict |-> NoBinds,
                  widget_bind |-> NoBinds, prev_element |-> 0,
                  next_element |-> 0, prepared |-> FALSE, packed |-> FALSE,
                  fails |-> FALSE]]

\* a slip: the key is not registered
Element_noregister(reg, nid, kind, key, hv) ==
    LET gen == hv /\ (~key.some \/ key.k = "")
    IN [raised |-> FALSE, element_keys |-> reg,
        next_id |-> IF gen THEN nid + 1 ELSE nid,
        elem |-> [kind |-> kind, has_value |-> hv, has_children |-> FALSE,
                  key |-> IF gen THEN Key(generate_element_id(nid)) ELSE key,
                  explicit |-> FALSE, parent |-> 0,
                  shape |-> "", text_align |-> "left", group_id |-> "",
                  default_value |-> FALSE, value |-> 0, window |-> FALSE,
                  created |-> FALSE, bind_dict |-> NoBinds,
                  widget_bind |-> NoBinds, prev_element |-> 0,
                  next_element |-> 0, prepared |-> FALSE, packed |-> FALSE,
                  fails |-> FALSE]]

\* Element.__init__ (widgets.py 849-882): the key is registered when it is
\* not None; a value-capable element without a key gets a generated one.
\* raised: the constructor raised and no element exists
Element(reg, nid, kind, key, hv) ==
    LET r == IF key.some THEN register_element_key(reg, key.k)
             ELSE [raised |-> FALSE, keys |-> reg]
        gen == hv /\ (~key.some \/ key.k = "")
    IN [raised |-> r.raised, element_keys |-> r.keys,
        next_id |-> IF gen /\ ~r.raised THEN nid + 1 ELSE nid,
        elem |-> [kind |-> kind, has_value |-> hv, has_children |-> FALSE,
                  key |-> IF gen THEN Key(generate_element_id(nid)) ELSE key,
                  explicit |-> FALSE, parent |-> 0,
                  shape |-> "", text_align |-> "left", group_id |-> "",
                  default_value |-> FALSE, value |-> 0, window |-> FALSE,
                  created |-> FALSE, bind_dict |-> NoBinds,
                  widget_bind |-> NoBinds, prev_element |-> 0,
                  next_element |-> 0, prepared |-> FALSE, packed |-> FALSE,
                  fails |-> FALSE]]

\* the key the subclass constructor passes to Element.__init__: Frame has
\* the default key "", Button and Radio take their text when the key is
\* None or ""
ClassKey(kind, keyarg, text) ==
    IF kind = "Frame" THEN (IF keyarg.some THEN keyarg ELSE Key(""))
    ELSE IF kind \in {"Button", "Radio"}
    THEN (IF ~keyarg.some \/ keyarg.k = "" THEN Key(text) ELSE keyarg)
    ELSE keyarg

\* has_value as the subclass constructors pass it
ClassHasValue(kind) == kind \in {"Input", "Radio"}

\* the subclass constructors: Input, Canvas, Button, Frame, Radio.
\* a: [kind, key, text, parent, shape, text_align, group_id, default, fails];
\* fails: the create method of the element raises
Construct(reg, nid, a) ==
    LET r == Element(reg, nid, a.kind, ClassKey(a.kind, a.key, a.text),
                     ClassHasValue(a.kind))
    IN [r EXCEPT !.elem = [@ EXCEPT !.explicit = a.key.some,
                                    !.parent = a.parent,
                                    !.has_children = (a.kind = "Frame"),
                                    !.shape = a.shape,
                                    !.text_align = a.text_align,
                                    !.group_id = Str(a.group_id),
                                    !.default_value = a.default,
                                    !.fails = a.fails]]

(***************************************************************************)
(* The values of the elements of any layout.  st is the state a            *)
(* construction or an element method works on: [elems, key_order,          *)
(* key_elements, rg, events, last_values, error, sel]; rg is                *)
(* radio_group_dict, sel the history of the selections.                    *)
(***************************************************************************)
\* Radio.is_selected (widgets.py 1894-1896)
is_selected(e, rg) == rg[e.group_id].var = e.value

\* Element.get of each kind: a Radio gives is_selected(), another element the
\* content of its widget
ElemGet(e, rg, wv) ==
    IF e.kind = "Radio"
    THEN (IF is_selected(e, rg) THEN "True" ELSE "False")
    ELSE IF e.key.k \in DOMAIN wv THEN wv[e.key.k] ELSE "v0"

\* the loop of Window.get_values over key_elements.items()
RECURSIVE CollectKeys(_, _, _, _, _)
CollectKeys(i, acc, st, wv, br) ==
    IF i > Len(st.key_order) THEN [ok |-> TRUE, values |-> acc]
    ELSE LET k == st.key_order[i]
             e == st.elems[st.key_elements[k]]
         IN IF ~e.has_value THEN CollectKeys(i + 1, acc, st, wv, br)
            ELSE IF k \in br THEN [ok |-> FALSE, values |-> acc]
            ELSE CollectKeys(i + 1,
                     Overlay(acc, [x \in {k} |-> ElemGet(e, st.rg, wv)]),
                     st, wv, br)

\* Window._event_handler (widgets.py 630-642) on st
window_event_handler(key, ctx, st, wv, br) ==
    Then(CollectKeys(1, EmptyMap, st, wv, br), LAMBDA c :
    Then(IF c.ok THEN c.values ELSE st.last_values, LAMBDA ret :
    Then(Overlay(ctx, ret), LAMBDA values :
        [st EXCEPT !.events =
                      IF EG_SWAP_EVENT_NAME \in DOMAIN values
                      THEN Put(@, values[EG_SWAP_EVENT_NAME],
                               [x \in DOMAIN values \ {EG_SWAP_EVENT_NAME} |->
                                   values[x]])
                      ELSE Put(@, key, values),
                  !.last_values = ret])))

\* the context the trace of a group variable passes to disptach_event
TraceContext == [x \in {"event_type", "event"} |->
                    IF x = "event_type" THEN "change" ELSE "e"]

\* a slip: the trace names the event by the member whose value is written
WriteVar_member(g, v, st, wv, br) ==
    Then([st EXCEPT !.rg = [@ EXCEPT ![g] = [@ EXCEPT !.var = v]]], LAMBDA st1 :
    Then(st1.elems[CHOOSE i \in 1..Len(st1.elems) :
                      /\ st1.elems[i].kind = "Radio"
                      /\ st1.elems[i].group_id = g
                      /\ st1.elems[i].value = v],
         LAMBDA member :
        IF member.window
        THEN window_event_handler(member.key.k, TraceContext, st1, wv, br)
        ELSE st1))

\* a write of the group variable: the trace added at line 1875 calls
\* disptach_event (918-923) of the Radio that created the group
WriteVar(g, v, st, wv, br) ==
    Then([st EXCEPT !.rg = [@ EXCEPT ![g] = [@ EXCEPT !.var = v]]], LAMBDA st1 :
    Then(st1.elems[st1.rg[g].owner], LAMBDA owner :
        IF owner.window
        THEN window_event_handler(owner.key.k, TraceContext, st1, wv, br)
        ELSE st1))

\* Radio.select (widgets.py 1890-1892)
select(i, st, wv, br) ==
    LET g == st.elems[i].group_id
    IN WriteVar(g, st.elems[i].value,
                [st EXCEPT !.sel = Overlay(@, [x \in {g} |-> i])], wv, br)

\* a slip: the counter of a new group starts at the sentinel
RadioCreate_sentinel(i, st, wv, br) ==
    LET g == st.elems[i].group_id
        first == g \notin DOMAIN st.rg
        rg1 == IF first
               THEN [x \in DOMAIN st.rg \cup {g} |->
                        IF x = g THEN [var |-> 0, counter |-> 0, owner |-> i]
                        ELSE st.rg[x]]
               ELSE [st.rg EXCEPT ![g] = [@ EXCEPT !.counter = @ + 1]]
        st1 == [st EXCEPT !.rg = rg1,
                          !.elems = [@ EXCEPT ![i] = [@ EXCEPT
                                        !.value = rg1[g].counter,
                                        !.created = TRUE]]]
    IN IF st.elems[i].default_value THEN select(i, st1, wv, br) ELSE st1

\* a slip: the counter of the group is not advanced for a later member
RadioCreate_same(i, st, wv, br) ==
    LET g == st.elems[i].group_id
        first == g \notin DOMAIN st.rg
        rg1 == IF first
               THEN [x \in DOMAIN st.rg \cup {g} |->
                        IF x = g THEN [var |-> 0, counter |-> 1, owner |-> i]
                        ELSE st.rg[x]]
               ELSE st.rg
        st1 == [st EXCEPT !.rg = rg1,
                          !.elems = [@ EXCEPT ![i] = [@ EXCEPT
                                        !.value = rg1[g].counter,
                                        !.created = TRUE]]]
    IN IF st.elems[i].default_value THEN select(i, st1, wv, br) ELSE st1

\* a slip: every radio button is selected when it is created
RadioCreate_select(i, st, wv, br) ==
    LET g == st.elems[i].group_id
        first == g \notin DOMAIN st.rg
        rg1 == IF first
               THEN [x \in DOMAIN st.rg \cup {g} |->
                        IF x = g THEN [var |-> 0, counter |-> 1, owner |-> i]
                        ELSE st.rg[x]]
               ELSE [st.rg EXCEPT ![g] = [@ EXCEPT !.counter = @ + 1]]
        st1 == [st EXCEPT !.rg = rg1,
                          !.elems = [@ EXCEPT ![i] = [@ EXCEPT
                                        !.value = rg1[g].counter,
                                        !.created = TRUE]]]
    IN select(i, st1, wv, br)

\* Radio.create (widgets.py 1871-1888)
RadioCreate(i, st, wv, br) ==
    LET g == st.elems[i].group_id
        first == g \notin DOMAIN st.rg
        rg1 == IF first
               THEN [x \in DOMAIN st.rg \cup {g} |->
                        IF x = g THEN [var |-> 0, counter |-> 1, owner |-> i]
                        ELSE st.rg[x]]
               ELSE [st.rg EXCEPT ![g] = [@ EXCEPT !.counter = @ + 1]]
        st1 == [st EXCEPT !.rg = rg1,
                          !.elems = [@ EXCEPT ![i] = [@ EXCEPT
                                        !.value = rg1[g].counter,
                                        !.created = TRUE]]]
    IN IF st.elems[i].default_value THEN select(i, st1, wv, br) ELSE st1

(***************************************************************************)
(* The binding table (widgets.py 774-784, 910-916).  A rule is [elem,      *)
(* handle_name, event_mode]: the key of the element the callback is closed *)
(* over, the handler suffix and the mode.                                  *)
(***************************************************************************)
\* widget.bind(event_name, callback), a slip: the callback is added to the
\* ones already bound
TkBind_add(wb, name, cb) ==
    IF name \in DOMAIN wb THEN [wb EXCEPT ![name] = Append(@, cb)]
    ELSE Overlay(wb, [x \in {name} |-> <<cb>>])

\* widget.bind(event_name, callback): the callback replaces the ones bound
TkBind(wb, name, cb) == Overlay(wb, [x \in {name} |-> <<cb>>])

\* Window.bind (widgets.py 774-784) on element e
window_bind(e, name, rule) ==
    LET e1 == [e EXCEPT !.bind_dict = Overlay(@, [x \in {name} |-> rule])]
    IN IF ~e1.created THEN e1
       ELSE [e1 EXCEPT !.widget_bind = TkBind(@, name, rule)]

\* Element.bind (widgets.py 910-916) on element e
element_bind(e, name, rule) ==
    LET e1 == [e EXCEPT !.bind_dict = Overlay(@, [x \in {name} |-> rule])]
    IN IF e1.window THEN window_bind(e1, name, rule) ELSE e1

\* lines 376-377: every rule of _bind_dict is bound to the new widget
RECURSIVE BindAll(_, _)
BindAll(e, names) ==
    IF names = {} THEN e
    ELSE LET n == CHOOSE x \in names : TRUE
         IN BindAll(window_bind(e, n, e.bind_dict[n]), names \ {n})

(***************************************************************************)
(* Window._create_widget (widgets.py 296-407) and Window.__init__.         *)
(***************************************************************************)
\* the key under which line 356 stores the element
IndexKey(key) == IF key.some THEN key.k ELSE "<None>"

Reverse(seq) == [j \in 1..Len(seq) |-> seq[Len(seq) + 1 - j]]

\* the elements of the layout of container p (0: of the window), in the
\* order they are declared
Row(p, es) ==
    SelectSeq([j \in 1..Len(es) |-> j], LAMBDA j : es[j].parent = p)

\* the same in the order the loop of line 329 visits them: reversed when the
\* row is aligned right (327-328)
Children(p, es) ==
    IF p # 0 /\ es[p].text_align = "right" THEN Reverse(Row(p, es))
    ELSE Row(p, es)

\* the shapes of a layout: a list of rows ("grid"), [] ("empty"), a list
\* whose first entry is an element ("flat"), and a list of rows followed by
\* an element that is not in a row ("ragged")
LayoutShapes == {"grid", "empty", "flat", "ragged"}

\* raise cls(...) naming element i: the construction ends; names collects
\* the elements the messages of the chained errors name, the innermost first
Raise(st, cls, i) ==
    [st EXCEPT !.error = TRUE,
               !.exc = [class |-> cls, names |-> Append(@.names, i)]]

\* lines 302-304: prepare_create of every element of the rows
RECURSIVE PrepareAll(_, _)
PrepareAll(todo, st) ==
    IF todo = <<>> THEN st
    ELSE Then([st EXCEPT
                  !.elems = [@ EXCEPT ![Head(todo)] = [@ EXCEPT !.prepared = TRUE]],
                  !.calls = Append(@, <<"prepare", Head(todo)>>)],
              LAMBDA st1 : PrepareAll(Tail(todo), st1))

\* lines 357-362: the focus target
FocusTarget(i, e, cur) ==
    IF e.has_value /\ cur = 0 THEN i
    ELSE IF cur = 0 /\ e.key.some /\ e.key.k \in {"OK", "Yes"} THEN i
    ELSE cur

RECURSIVE _create_widget(_, _, _, _, _)
RECURSIVE CreateRow(_, _, _, _, _)

\* lines 331-399 for element i of a row whose element visited before is prev
\* (0: none): the links (337-341), create (342-353), the key index
\* (354-356), the focus target (357-362), the layout of a container
\* (363-372), the bindings (375-377) and pack (394-395)
CreateElem(i, prev, st, wv, br) ==
    Then([st EXCEPT !.elems = [@ EXCEPT
                ![i] = [@ EXCEPT !.window = TRUE, !.prev_element = prev]]],
         LAMBDA st0 :
    Then(IF prev = 0 THEN st0
         ELSE [st0 EXCEPT !.elems = [@ EXCEPT
                  ![prev] = [@ EXCEPT !.next_element = i]]],
         LAMBDA sta :
    IF sta.elems[i].fails THEN Raise(sta, "TkEasyError", i)
    ELSE
    Then(IF sta.elems[i].kind = "Radio" THEN RadioCreate(i, sta, wv, br)
         ELSE [sta EXCEPT !.elems = [@ EXCEPT ![i] =
                                        [@ EXCEPT !.created = TRUE]]],
         LAMBDA stb :
    Then([stb EXCEPT !.calls = Append(@, <<"create", i>>)], LAMBDA st1 :
    Then(IF st1.elems[i].has_value \/ st1.elems[i].key.some
         THEN [st1 EXCEPT
                  !.key_order =
                      IF IndexKey(st1.elems[i].key) \in DOMAIN st1.key_elements
                      THEN @ ELSE Append(@, IndexKey(st1.elems[i].key)),
                  !.key_elements =
                      Overlay(@, [x \in {IndexKey(st1.elems[i].key)} |-> i])]
         ELSE st1,
         LAMBDA st2 :
    Then([st2 EXCEPT !.need_focus_widget = FocusTarget(i, st2.elems[i], @)],
         LAMBDA st3 :
    Then(IF st3.elems[i].has_children
         THEN _create_widget(i, st3.elems[i].shape, st3, wv, br)
         ELSE st3,
         LAMBDA st4 :
        IF st4.error THEN Raise(st4, "TkEasyError", i)
        ELSE [st4 EXCEPT !.elems = [@ EXCEPT ![i] =
                [BindAll(@, DOMAIN @.bind_dict) EXCEPT !.packed = TRUE]]])))))))

\* a slip: the loop goes on after an element raised
CreateRow_continue(todo, prev, st, wv, br) ==
    IF todo = <<>> THEN st
    ELSE Then(CreateElem(Head(todo), prev, st, wv, br), LAMBDA st1 :
              CreateRow(Tail(todo), Head(todo), st1, wv, br))

\* the loop of line 329 over the elements of a row, up to the first that
\* raises
CreateRow(todo, prev, st, wv, br) ==
    IF todo = <<>> \/ st.error THEN st
    ELSE Then(CreateElem(Head(todo), prev, st, wv, br), LAMBDA st1 :
              CreateRow(Tail(todo), Head(todo), st1, wv, br))

\* _create_widget(parent, layout, align) for the layout of container p
\* (0: of the window): the shape check (299-300), the prepare pass
\* (302-304), in which a row that is an element is iterated through
\* Element.__getitem__ (1164-1176) and yields None, the focus target reset
\* (306) and the create pass (307-403)
_create_widget(p, shape, st, wv, br) ==
    IF shape \notin {"grid", "ragged"} THEN Raise(st, "TkEasyError", p)
    ELSE Then(PrepareAll(Row(p, st.elems), st), LAMBDA st1 :
         IF shape = "ragged" THEN Raise(st1, "AttributeError", p)
         ELSE Then([st1 EXCEPT !.need_focus_widget = 0], LAMBDA st2 :
              CreateRow(Children(p, st2.elems), 0, st2, wv, br)))

\* the order in which the loops of lines 307 and 329 and the recursion of
\* line 367 reach the elements below container p: an element, then the
\* elements of its layout, then the elements after it in its row
RECURSIVE TraverseRow(_, _)
TraverseRow(todo, es) ==
    IF todo = <<>> THEN <<>>
    ELSE <<Head(todo)>>
         \o (IF es[Head(todo)].has_children
             THEN TraverseRow(Children(Head(todo), es), es) ELSE <<>>)
         \o TraverseRow(Tail(todo), es)

Traversal(p, es) == TraverseRow(Children(p, es), es)

\* the stack of open windows of utils: _window_push, _window_pop
_window_push(stack, w) == Append(stack, w)
_window_pop(stack, w) == SelectSeq(stack, LAMBDA x : x # w)

(***************************************************************************)
(* Inputs of the constructors.                                             *)
(***************************************************************************)
MaxElems == 3       \* elements declared for one window

NoGroup == [int |-> FALSE, s |-> ""]
Arg(kind, key, text) ==
    [kind |-> kind, key |-> key, text |-> text, parent |-> 0, shape |-> "",
     text_align |-> "left", group_id |-> NoGroup, default |-> FALSE,
     fails |-> FALSE]

\* the elements are declared one after the other
RECURSIVE DeclareAll(_, _)
DeclareAll(args, r) ==
    IF args = <<>> THEN r
    ELSE LET c == Construct(r.element_keys, r.next_id, Head(args))
         IN DeclareAll(Tail(args),
                [element_keys |-> c.element_keys, next_id |-> c.next_id,
                 elems |-> IF c.raised THEN r.elems ELSE Append(r.elems, c.elem)])

NoElems == [element_keys |-> {}, next_id |-> 1, elems |-> <<>>]

\* the layout of the specifications of the read loop:
\* [[Input(key="a"), Button("ok"), Input(key="b")]]
FixedLayout ==
    DeclareAll(<<Arg("Input", Key("a"), ""), Arg("Button", NoKey, "ok"),
                 Arg("Input", Key("b"), "")>>, NoElems)

NoExc == [class |-> "", names |-> <<>>]

NoWindow(es) ==
    [elems |-> es, key_order |-> <<>>, key_elements |-> [k \in {} |-> 0],
     rg |-> [g \in {} |-> 0], events |-> <<>>, last_values |-> EmptyMap,
     error |-> FALSE, sel |-> [g \in {} |-> 0], need_focus_widget |-> 0,
     calls |-> <<>>, exc |-> NoExc]

\* the window built from that layout
FixedWindow ==
    _create_widget(0, "grid", NoWindow(FixedLayout.elems),
                   [k \in ValueKeys |-> "v0"], {})

KeyArgs == {NoKey, Key(""), Key("k1"), Key("k2")}
Shapes == {"grid", "empty"}
GroupArgs == {[int |-> TRUE, s |-> "1"], [int |-> FALSE, s |-> "1"],
              [int |-> FALSE, s |-> "g"]}
EventNames == {"<Button-1>", "<Key>"}
RuleArgs == {[handle_name |-> "-click", event_mode |-> "user"],
             [handle_name |-> HIDE_SUFFIX, event_mode |-> "user"],
             [handle_name |-> "change", event_mode |-> "system"]}

NoInit == [op |-> "none", kind |-> "", key |-> NoKey, dup |-> FALSE,
           exc |-> NoExc, calls |-> <<>>]
NoFired == [state |-> "none", rules |-> <<>>, before |-> <<>>,
            raised |-> FALSE, accessed |-> <<>>, lastv |-> EmptyMap]

NoPass == [act |-> "none", key |-> "", values |-> EmptyMap, entry |-> NoEntry,
           flag_stop |-> FALSE, fresh |-> FALSE, elapsed |-> 0, before |-> <<>>]
NoDispatch == [key |-> "", before |-> <<>>, called |-> <<>>, flag_stop |-> FALSE,
               picked |-> NoPick]
NoGv == [state |-> "none", ret |-> EmptyMap, before |-> EmptyMap]

\* the second window, constructed, with no read made and nothing queued
NoPeer == [events |-> <<>>, pc |-> "idle", wake |-> FALSE, ret |-> NoEntry]

\* the fields Window.__init__ sets at lines 110-118
InitWindow ==
    /\ events = <<>>
    /\ event_hooks = [n \in {} |-> <<>>]
    /\ last_values = EmptyMap
    /\ flag_alive = TRUE
    /\ timeout = NoTimeout
    /\ timeout_key = WINDOW_TIMEOUT
    /\ timeout_id = FALSE
    /\ quit = FALSE
    /\ pc = "idle"
    /\ elapsed = 0
    /\ wval = [k \in ValueKeys |-> "v0"]
    /\ broken = {}
    /\ regDone = FALSE
    /\ good = EmptyMap
    /\ last = NoPass
    /\ disp = NoDispatch
    /\ gv = NoGv
    /\ fired = NoFired
    /\ init = NoInit
    /\ last_rule = [x \in {} |-> 0]
    /\ selected = [g \in {} |-> 0]
    /\ destroyed = FALSE
    /\ downs = 0
    /\ cancels = 0
    /\ closed = FALSE
    /\ peer = NoPeer
    /\ idle_wakes = 0
    /\ focus_wake = FALSE
    /\ focused = 0
    /\ iter = "new"

\* the window of the fixed layout, constructed
Init ==
    /\ InitWindow
    /\ element_keys = FixedLayout.element_keys
    /\ next_id = FixedLayout.next_id
    /\ elems = FixedWindow.elems
    /\ built = "built"
    /\ key_order = FixedWindow.key_order
    /\ key_elements = FixedWindow.key_elements
    /\ radio_group_dict = FixedWindow.rg
    /\ need_focus_widget = FixedWindow.need_focus_widget
    /\ window_stack = _window_push(<<>>, "w")

\* nothing declared yet
InitDeclare ==
    /\ InitWindow
    /\ element_keys = NoElems.element_keys
    /\ next_id = NoElems.next_id
    /\ elems = NoElems.elems
    /\ built = "declaring"
    /\ key_order = <<>>
    /\ key_elements = [k \in {} |-> 0]
    /\ radio_group_dict = [g \in {} |-> 0]
    /\ need_focus_widget = 0
    /\ window_stack = <<>>

\* the elements of the fixed layout declared, the window not yet constructed
InitBind ==
    /\ InitWindow
    /\ element_keys = FixedLayout.element_keys
    /\ next_id = FixedLayout.next_id
    /\ elems = FixedLayout.elems
    /\ built = "declaring"
    /\ key_order = <<>>
    /\ key_elements = [k \in {} |-> 0]
    /\ radio_group_dict = [g \in {} |-> 0]
    /\ need_focus_widget = 0
    /\ window_stack = <<>>

CanEnqueue == Len(events) < MaxQueue

\* Queue.get, a slip: the newest entry is taken
Get_newest(q) == [entry |-> q[Len(q)], rest |-> SubSeq(q, 1, Len(q) - 1)]

\* Queue.get
Get(q) == [entry |-> Head(q), rest |-> Tail(q)]

\* Tk runs a callback (an interaction, a binding, an idle wake) while the main
\* loop runs and has not been told to quit, or in root.update() when read
\* starts, which is any moment between two reads
TkDispatching == ~quit

\* _exit_mainloop (widgets.py 819-826): root.quit() ends the running main
\* loop, whichever window's read runs it; outside a main loop it has no
\* effect on the next one
ExitMainloop == quit' = (pc = "mainloop" \/ peer.pc = "mainloop" \/ quit)

\* the step makes no pass of the read loop, no dispatch, no get_values pass
NoRead == last' = NoPass /\ disp' = NoDispatch
NoCollect == gv' = NoGv /\ UNCHANGED <<last_values, good>>
\* the step fires no bound interaction, and constructs and closes nothing
NoFire == fired' = NoFired
Quiet == NoFire /\ UNCHANGED <<buildVars, closeVars, loopVars>>
\* the same for a step of the read loop, which schedules and cancels wakes
QuietLoop == NoFire /\ UNCHANGED <<buildVars, closeVars>>

\* after_cancel(timeout_id) of lines 498-499, 646-647 and 653-654: the wake
\* recorded in timeout_id leaves the idle queue if it is still pending
AfterCancel(n, id) == IF id THEN n - 1 ELSE n

\* the generator of event_iter yields when the read it called returns
IterReturn(it) == IF it = "reading" THEN "suspended" ELSE it

\* a get_values pass with result r is made by the step, the last one of a
\* dispatch that left the widgets with the values wv
CollectAt(r, wv) ==
    /\ last_values' = r.last_values
    /\ gv' = [state |-> "called", ret |-> r.ret, before |-> last_values]
    /\ good' = IF broken = {} THEN Snapshot(wv) ELSE good

\* a get_values pass with result r is made by the step
Collect(r) ==
    /\ last_values' = r.last_values
    /\ gv' = [state |-> "called", ret |-> r.ret, before |-> last_values]
    /\ good' = IF broken = {} THEN Snapshot(wval) ELSE good

(***************************************************************************)
(* The widgets: the user edits a field; an accessor starts or stops        *)
(* raising.                                                                *)
(***************************************************************************)
UserEdit(k, v) ==
    /\ built = "built"
    /\ TkDispatching
    /\ wval[k] # v
    /\ wval' = [wval EXCEPT ![k] = v]
    /\ NoRead /\ NoCollect
    /\ UNCHANGED <<events, event_hooks, flag_alive, timeout, timeout_key,
                   timeout_id, quit, pc, elapsed, broken, regDone>>
    /\ Quiet

AccessorFault(k) ==
    /\ built = "built"
    /\ TkDispatching
    /\ broken' = IF k \in broken THEN broken \ {k} ELSE broken \cup {k}
    /\ NoRead /\ NoCollect
    /\ UNCHANGED <<events, event_hooks, flag_alive, timeout, timeout_key,
                   timeout_id, quit, pc, elapsed, wval, regDone>>
    /\ Quiet

(***************************************************************************)
(* Window._event_handler (widgets.py 630-642).                             *)
(***************************************************************************)
EventHandlerBody(key, ctx) ==
    \E h \in {_event_handler(events, key, ctx, wval, broken, last_values)} :
       /\ events' = h.events
       /\ Collect(h.r)
       /\ ExitMainloop

EventHandler(key, ctx) ==
    /\ TkDispatching
    /\ CanEnqueue
    /\ EventHandlerBody(key, ctx)
    /\ NoRead
    /\ UNCHANGED <<event_hooks, flag_alive, timeout, timeout_key, timeout_id,
                   pc, elapsed, wval, broken, regDone>>
    /\ Quiet

\* Element.disptach_event (widgets.py 918-923) of the element with that key:
\* a context of None is the empty one, and Window._event_handler is called
\* with the key of the element
DispatchEvent(key, ctx) ==
    /\ built = "built"
    /\ TkDispatching
    /\ CanEnqueue
    /\ EventHandlerBody(key, ctx)
    /\ NoRead
    /\ fired' = [state |-> "dispatched", rules |-> <<[elem |-> key, ctx |-> ctx]>>,
                 before |-> events, raised |-> FALSE, accessed |-> <<>>,
                 lastv |-> last_values]
    /\ UNCHANGED <<event_hooks, flag_alive, timeout, timeout_key, timeout_id,
                   pc, elapsed, wval, broken, regDone>>
    /\ UNCHANGED <<buildVars, closeVars, loopVars>>

(***************************************************************************)
(* Window._close_handler (widgets.py 650-655).                             *)
(***************************************************************************)
\* a slip: the close event is put in the queue but the main loop is not left
CloseHandler_noexit ==
    /\ TkDispatching
    /\ CanEnqueue
    /\ flag_alive' = FALSE
    /\ timeout_id' = FALSE
    /\ events' = Put(events, WINDOW_CLOSED,
                     get_values(wval, broken, last_values).ret)
    /\ Collect(get_values(wval, broken, last_values))
    /\ NoRead
    /\ UNCHANGED <<event_hooks, timeout, timeout_key, pc, elapsed, wval, broken,
                   regDone, quit>>
    /\ ~destroyed
    /\ downs' = IF flag_alive THEN downs + 1 ELSE downs
    /\ idle_wakes' = AfterCancel(idle_wakes, timeout_id)
    /\ NoFire
    /\ UNCHANGED <<buildVars, destroyed, window_stack, cancels, closed, peer>>
    /\ UNCHANGED <<focus_wake, need_focus_widget, focused, iter>>

\* the user closes the window: the flag falls, the recorded wake is
\* cancelled and the close event is put in the queue
CloseHandler ==
    /\ TkDispatching
    /\ CanEnqueue
    /\ flag_alive' = FALSE
    /\ timeout_id' = FALSE
    /\ EventHandlerBody(WINDOW_CLOSED, EmptyMap)
    /\ NoRead
    /\ UNCHANGED <<event_hooks, timeout, timeout_key, pc, elapsed, wval, broken,
                   regDone>>
    /\ ~destroyed
    /\ downs' = IF flag_alive THEN downs + 1 ELSE downs
    /\ idle_wakes' = AfterCancel(idle_wakes, timeout_id)
    /\ NoFire
    /\ UNCHANGED <<buildVars, destroyed, window_stack, cancels, closed, peer>>
    /\ UNCHANGED <<focus_wake, need_focus_widget, focused, iter>>

(***************************************************************************)
(* Window.write_event_value (widgets.py 714-715).                          *)
(***************************************************************************)
WriteEventValue(key, values) ==
    /\ CanEnqueue
    /\ events' = Put(events, key, values)
    /\ NoRead /\ NoCollect
    /\ UNCHANGED <<event_hooks, flag_alive, timeout, timeout_key, timeout_id,
                   quit, pc, elapsed, wval, broken, regDone>>
    /\ Quiet

(***************************************************************************)
(* _bind_event_handler (widgets.py 799-817): the callback of a bound       *)
(* interaction.  In "system" mode the accessors are called directly: one   *)
(* that raises ends the callback before anything is put in the queue.      *)
(* The result: the queue, last_values, the keys of the elements whose      *)
(* accessor was called, and whether the callback raised.                   *)
(***************************************************************************)
\* the keys whose accessor the loop of lines 809-812 calls
RECURSIVE AccessedFrom(_, _)
AccessedFrom(i, br) ==
    IF i > Len(KeyOrder) THEN <<>>
    ELSE LET k == KeyOrder[i] IN
         IF ~has_value[k] THEN AccessedFrom(i + 1, br)
         ELSE IF k \in br THEN <<k>>
         ELSE <<k>> \o AccessedFrom(i + 1, br)

\* line 808
SystemContext(b) ==
    [x \in {"event", "event_type"} |-> IF x = "event" THEN "e" ELSE b.handle_name]

\* a slip: the "user" mode goes through get_values like _event_handler
_bind_event_handler_collect(b, q, wv, br, lastv) ==
    IF b.event_mode = "user"
    THEN LET r == get_values(wv, br, lastv)
         IN [events |-> Put(q, b.elem \o b.handle_name, Overlay(Context, r.ret)),
             last_values |-> r.last_values,
             accessed |-> AccessedFrom(1, br), raised |-> FALSE]
    ELSE LET c == CollectFrom(1, SystemContext(b), wv, br)
         IN [events |-> IF c.ok THEN Put(q, b.elem, c.values) ELSE q,
             last_values |-> lastv,
             accessed |-> AccessedFrom(1, br), raised |-> ~c.ok]

\* _bind_event_handler (widgets.py 799-817) on the queue q: the system branch
\* calls the accessors with no try, so a raising accessor ends the callback
\* before the put
_bind_event_handler(b, q, wv, br, lastv) ==
    IF b.event_mode = "user"
    THEN [events |-> Put(q, b.elem \o b.handle_name, Context),
          last_values |-> lastv, accessed |-> <<>>, raised |-> FALSE]
    ELSE IF b.event_mode = "system"
    THEN LET c == CollectFrom(1, SystemContext(b), wv, br)
         IN [events |-> IF c.ok THEN Put(q, b.elem, c.values) ELSE q,
             last_values |-> lastv,
             accessed |-> AccessedFrom(1, br), raised |-> ~c.ok]
    ELSE [events |-> q, last_values |-> lastv, accessed |-> <<>>,
          raised |-> FALSE]

\* Tk runs the callbacks bound to the interaction in the order they were
\* bound, up to the first that raises
RECURSIVE RunCallbacks(_, _, _, _)
RunCallbacks(cbs, r, wv, br) ==
    IF cbs = <<>> \/ r.raised THEN r
    ELSE Then(_bind_event_handler(Head(cbs), r.events, wv, br, r.last_values),
              LAMBDA c :
         Then([events |-> c.events, last_values |-> c.last_values,
               accessed |-> r.accessed \o c.accessed, raised |-> c.raised],
              LAMBDA r1 : RunCallbacks(Tail(cbs), r1, wv, br)))

\* the interaction fires on a widget whose callbacks are cbs
FireCallbacks(cbs) ==
    \E r \in {RunCallbacks(cbs, [events |-> events, last_values |-> last_values,
                                 accessed |-> <<>>, raised |-> FALSE],
                           wval, broken)} :
       /\ events' = r.events
       /\ last_values' = r.last_values
       /\ fired' = [state |-> "fired", rules |-> cbs, before |-> events,
                    raised |-> r.raised, accessed |-> r.accessed,
                    lastv |-> last_values]
       /\ gv' = NoGv
       /\ good' = good
       /\ NoRead

\* a callback bound with rule b fires
BindEventHandler(b) ==
    /\ TkDispatching
    /\ CanEnqueue
    /\ FireCallbacks(<<b>>)
    /\ UNCHANGED <<event_hooks, flag_alive, timeout, timeout_key, timeout_id,
                   quit, pc, elapsed, wval, broken, regDone>>
    /\ UNCHANGED <<buildVars, closeVars, loopVars>>

\* the interaction name fires on the widget of element i
Fire(i, name) ==
    /\ built = "built"
    /\ TkDispatching
    /\ elems[i].created
    /\ name \in DOMAIN elems[i].widget_bind
    /\ Len(events) + Len(elems[i].widget_bind[name]) <= MaxQueue
    /\ FireCallbacks(elems[i].widget_bind[name])
    /\ UNCHANGED <<event_hooks, flag_alive, timeout, timeout_key, timeout_id,
                   quit, pc, elapsed, wval, broken, regDone>>
    /\ UNCHANGED <<buildVars, closeVars, loopVars>>

\* the rule a bind call on element i stores
Rule(i, a) ==
    [elem |-> IndexKey(elems[i].key), handle_name |-> a.handle_name,
     event_mode |-> a.event_mode]

\* elem.bind(name, handle_name, event_mode=...) (widgets.py 910-916)
ElementBind(i, name, a) ==
    /\ built \in {"declaring", "built"}
    /\ pc = "idle"
    /\ elems' = [elems EXCEPT ![i] = element_bind(@, name, Rule(i, a))]
    /\ last_rule' = Overlay(last_rule, [x \in {<<i, name>>} |-> Rule(i, a)])
    /\ NoRead /\ NoCollect /\ NoFire
    /\ UNCHANGED <<events, event_hooks, flag_alive, timeout, timeout_key,
                   timeout_id, quit, pc, elapsed, wval, broken, regDone>>
    /\ UNCHANGED <<element_keys, next_id, built, init, key_order,
                   key_elements, radio_group_dict, selected, closeVars, loopVars>>

\* window.bind(elem, name, handle_name, event_mode=...) (widgets.py 774-784)
WindowBind(i, name, a) ==
    /\ built = "built"
    /\ pc = "idle"
    /\ elems' = [elems EXCEPT ![i] = window_bind(@, name, Rule(i, a))]
    /\ last_rule' = Overlay(last_rule, [x \in {<<i, name>>} |-> Rule(i, a)])
    /\ NoRead /\ NoCollect /\ NoFire
    /\ UNCHANGED <<events, event_hooks, flag_alive, timeout, timeout_key,
                   timeout_id, quit, pc, elapsed, wval, broken, regDone>>
    /\ UNCHANGED <<element_keys, next_id, built, init, key_order,
                   key_elements, radio_group_dict, selected, closeVars, loopVars>>

(***************************************************************************)
(* Window.register_event_hooks called by the application.                  *)
(***************************************************************************)
RegisterEventHooks(name, h) ==
    /\ TkDispatching
    /\ NumHooks(event_hooks) < MaxHooks
    /\ event_hooks' = register_event_hooks(event_hooks, name,
                          [h |-> h, n |-> NumHooks(event_hooks) + 1])
    /\ NoRead /\ NoCollect
    /\ UNCHANGED <<events, flag_alive, timeout, timeout_key, timeout_id, quit,
                   pc, elapsed, wval, broken, regDone>>
    /\ Quiet

(***************************************************************************)
(* Window.read (widgets.py 483-532).                                       *)
(***************************************************************************)
\* time_checker_end (widgets.py 3667-3671): int() of the elapsed milliseconds
time_checker_end(e) == e \div SubMs

\* a slip: >= in the timeout test
TimeoutDue_ge(t, e) == t.some /\ time_checker_end(e) >= t.ms

\* the timeout test of lines 511-514
TimeoutDue(t, e) == t.some /\ time_checker_end(e) > t.ms

\* the clock of a read is followed until its timeout is due
ClockStop(t) == (t.ms + 1) * SubMs

\* lines 485-506, a slip: the recorded wake is not cancelled
ReadCall_nocancel(t, k) ==
    /\ pc = "idle"
    /\ peer.pc = "idle"
    /\ built = "built"
    /\ timeout' = t
    /\ timeout_key' = k
    /\ elapsed' = 0
    /\ focus_wake' = TRUE
    /\ idle_wakes' = idle_wakes + 1
    /\ timeout_id' = TRUE
    /\ quit' = FALSE
    /\ pc' = "mainloop"
    /\ NoRead /\ NoCollect
    /\ UNCHANGED <<events, event_hooks, wval, broken, regDone>>
    /\ UNCHANGED <<need_focus_widget, focused>>
    /\ QuietLoop

\* lines 485-506: from the call to the first root.mainloop().  A
\* _focus_window callback is scheduled (493), the wake recorded in
\* timeout_id is cancelled and a new one scheduled (498-502)
ReadCall(t, k) ==
    /\ pc = "idle"
    /\ peer.pc = "idle"
    /\ built = "built"
    /\ timeout' = t
    /\ timeout_key' = k
    /\ elapsed' = 0
    /\ focus_wake' = TRUE
    /\ idle_wakes' = AfterCancel(idle_wakes, timeout_id) + 1
    /\ timeout_id' = TRUE
    /\ quit' = FALSE
    /\ pc' = "mainloop"
    /\ NoRead /\ NoCollect
    /\ UNCHANGED <<events, event_hooks, wval, broken, regDone>>
    /\ UNCHANGED <<need_focus_widget, focused>>
    /\ QuietLoop

\* window.read(t, k), a slip: read marks the window alive again
ReadStart_revive(t, k) ==
    /\ ReadCall(t, k)
    /\ flag_alive' = TRUE
    /\ UNCHANGED iter

\* window.read(t, k) called by the application
ReadStart(t, k) ==
    /\ ReadCall(t, k)
    /\ UNCHANGED <<flag_alive, iter>>

\* wall-clock time passes while read is waiting
Tick ==
    /\ pc = "mainloop"
    /\ timeout.some
    /\ elapsed < ClockStop(timeout)
    /\ elapsed' = elapsed + 1
    /\ NoRead /\ NoCollect
    /\ UNCHANGED <<events, event_hooks, flag_alive, timeout, timeout_key,
                   timeout_id, quit, pc, wval, broken, regDone>>
    /\ Quiet

\* Window._window_idle_handler (widgets.py 626-628): the idle wake fires
WindowIdleHandler ==
    /\ pc = "mainloop"
    /\ TkDispatching
    /\ timeout_id
    /\ timeout_id' = FALSE
    /\ idle_wakes' = idle_wakes - 1
    /\ quit' = TRUE
    /\ NoRead /\ NoCollect
    /\ UNCHANGED <<events, event_hooks, flag_alive, timeout, timeout_key, pc,
                   elapsed, wval, broken, regDone>>
    /\ UNCHANGED <<focus_wake, need_focus_widget, focused, iter>>
    /\ QuietLoop

\* line 515: the timeout event
TimeoutEvent(k) == [key |-> k, values |-> EmptyMap]

\* lines 510-516, a slip: the oldest queued entry is taken when the timeout
\* event is returned
ReadTimeout_drop ==
    /\ TimeoutDue(timeout, elapsed)
    /\ last' = [NoPass EXCEPT !.act = "timeout",
                              !.key = TimeoutEvent(timeout_key).key,
                              !.values = TimeoutEvent(timeout_key).values,
                              !.elapsed = elapsed, !.before = events]
    /\ disp' = NoDispatch
    /\ pc' = "idle"
    /\ quit' = FALSE
    /\ elapsed' = 0
    /\ NoCollect
    /\ events' = IF events = <<>> THEN events ELSE Tail(events)
    /\ UNCHANGED <<event_hooks, flag_alive, timeout, timeout_key,
                   timeout_id, wval, broken, regDone>>
    /\ iter' = IterReturn(iter)
    /\ UNCHANGED <<idle_wakes, focus_wake, need_focus_widget, focused>>
    /\ QuietLoop

\* lines 510-516: the timeout is due, read returns (timeout_key, {})
ReadTimeout ==
    /\ TimeoutDue(timeout, elapsed)
    /\ last' = [NoPass EXCEPT !.act = "timeout",
                              !.key = TimeoutEvent(timeout_key).key,
                              !.values = TimeoutEvent(timeout_key).values,
                              !.elapsed = elapsed, !.before = events]
    /\ disp' = NoDispatch
    /\ pc' = "idle"
    /\ quit' = FALSE
    /\ elapsed' = 0
    /\ NoCollect
    /\ UNCHANGED <<events, event_hooks, flag_alive, timeout, timeout_key,
                   timeout_id, wval, broken, regDone>>
    /\ iter' = IterReturn(iter)
    /\ UNCHANGED <<idle_wakes, focus_wake, need_focus_widget, focused>>
    /\ QuietLoop

\* lines 518-519 and 497-506, a slip: the idle wake is not scheduled again
ReadEmpty_no_wake ==
    /\ ~TimeoutDue(timeout, elapsed)
    /\ events = <<>>
    /\ last' = [NoPass EXCEPT !.act = "empty", !.elapsed = elapsed]
    /\ disp' = NoDispatch
    /\ quit' = FALSE
    /\ NoCollect
    /\ UNCHANGED <<events, event_hooks, flag_alive, timeout, timeout_key, pc,
                   elapsed, wval, broken, regDone, timeout_id>>
    /\ Quiet

\* lines 518-519 and 497-506: nothing queued, back to root.mainloop()
ReadEmpty ==
    /\ ~TimeoutDue(timeout, elapsed)
    /\ events = <<>>
    /\ last' = [NoPass EXCEPT !.act = "empty", !.elapsed = elapsed]
    /\ disp' = NoDispatch
    /\ idle_wakes' = AfterCancel(idle_wakes, timeout_id) + 1
    /\ timeout_id' = TRUE
    /\ quit' = FALSE
    /\ NoCollect
    /\ UNCHANGED <<events, event_hooks, flag_alive, timeout, timeout_key, pc,
                   elapsed, wval, broken, regDone>>
    /\ UNCHANGED <<focus_wake, need_focus_widget, focused, iter>>
    /\ QuietLoop

\* the record of a hook phase that made no get_values pass
Uncollected(lastv) == [ok |-> TRUE, ret |-> lastv, last_values |-> lastv]

\* lines 521-526, a slip: the values of the queue entry are kept on stop
HookPhase_stale(entry, eh, rd, wv, br, lastv, picked) ==
    Then(_dispatch_event_hooks(entry.key,
             [hooks |-> eh, regDone |-> rd, wval |-> wv, broken |-> br,
              last_values |-> lastv, picked |-> picked]),
         LAMBDA d :
            [key |-> IF entry.key \in DOMAIN eh /\ d.flag_stop
                     THEN entry.key \o STOPPED_SUFFIX ELSE entry.key,
             values |-> entry.values,
             flag_stop |-> entry.key \in DOMAIN eh /\ d.flag_stop,
             fresh |-> FALSE, hooked |-> entry.key \in DOMAIN eh, d |-> d,
             r |-> Uncollected(lastv)])

\* lines 521-526, a slip: the values are collected again for every hooked event
HookPhase_recollect(entry, eh, rd, wv, br, lastv, picked) ==
    Then(_dispatch_event_hooks(entry.key,
             [hooks |-> eh, regDone |-> rd, wval |-> wv, broken |-> br,
              last_values |-> lastv, picked |-> picked]),
         LAMBDA d :
            IF entry.key \in DOMAIN eh
            THEN Then(get_values(d.wval, br, d.last_values), LAMBDA r :
                    [key |-> IF d.flag_stop THEN entry.key \o STOPPED_SUFFIX
                             ELSE entry.key,
                     values |-> r.ret, flag_stop |-> d.flag_stop,
                     fresh |-> TRUE, hooked |-> TRUE, d |-> d, r |-> r])
            ELSE [key |-> entry.key, values |-> entry.values,
                  flag_stop |-> FALSE, fresh |-> FALSE, hooked |-> FALSE,
                  d |-> d, r |-> Uncollected(lastv)])

\* lines 521-526: the hooks of the dequeued entry run; on stop the name gets
\* the stopped suffix and the values are collected again.
\* fresh: get_values was called, and r is its result
HookPhase(entry, eh, rd, wv, br, lastv, picked) ==
    Then(_dispatch_event_hooks(entry.key,
             [hooks |-> eh, regDone |-> rd, wval |-> wv, broken |-> br,
              last_values |-> lastv, picked |-> picked]),
         LAMBDA d :
            IF entry.key \in DOMAIN eh /\ d.flag_stop
            THEN Then(get_values(d.wval, br, d.last_values), LAMBDA r :
                    [key |-> entry.key \o STOPPED_SUFFIX, values |-> r.ret,
                     flag_stop |-> TRUE, fresh |-> TRUE, hooked |-> TRUE,
                     d |-> d, r |-> r])
            ELSE [key |-> entry.key, values |-> entry.values,
                  flag_stop |-> FALSE, fresh |-> FALSE,
                  hooked |-> entry.key \in DOMAIN eh, d |-> d,
                  r |-> Uncollected(lastv)])

\* line 528, a slip: a stopped event is consumed like a hidden one
IsHidden_stopped(key) ==
    EndsWith(key, HIDE_SUFFIX) \/ EndsWith(key, STOPPED_SUFFIX)

\* line 528: key.endswith("/hide"), on the name the hook phase left
IsHidden(key) == EndsWith(key, HIDE_SUFFIX)

\* the answers the picker can give during the dispatch of the entry: it is
\* opened only by the hook of a browse element
Picks(entry, eh) ==
    IF /\ entry.key \in DOMAIN eh
       /\ \E i \in 1..Len(eh[entry.key]) : eh[entry.key][i].h = "browse"
    THEN PickerResults ELSE {NoPick}

\* lines 520-532: one entry is taken, the hooks run, and the entry is either
\* returned or consumed as hidden.  A hook that enqueues (the hook of a
\* browse element) calls _exit_mainloop with no main loop running.  A hook
\* that calls Window.close() (676-700) runs it inside the dispatch: with the flag still true the flag
\* falls and the window leaves the stack and is destroyed; the quit() of
\* line 697 finds no main loop running
ReadEvent ==
    /\ ~TimeoutDue(timeout, elapsed)
    /\ events # <<>>
    /\ \E g \in {Get(events)} :
       \E picked \in Picks(g.entry, event_hooks) :
       \E hp \in {HookPhase(g.entry, event_hooks, regDone, wval, broken,
                             last_values, picked)} :
       LET hide == IsHidden(hp.key)
       IN /\ events' = g.rest \o hp.d.put
          /\ wval' = hp.d.wval
          /\ IF hp.hooked
             THEN /\ event_hooks' = hp.d.hooks
                  /\ regDone' = hp.d.regDone
                  /\ disp' = [key |-> g.entry.key,
                              before |-> event_hooks[g.entry.key],
                              called |-> hp.d.called,
                              flag_stop |-> hp.d.flag_stop,
                              picked |-> picked]
             ELSE /\ disp' = NoDispatch
                  /\ UNCHANGED <<event_hooks, regDone>>
          /\ IF hp.fresh THEN CollectAt(hp.r, hp.d.wval)
             ELSE IF hp.d.collected THEN CollectAt(hp.d.r, hp.d.wval)
             ELSE NoCollect
          /\ last' = [act |-> IF hide THEN "hide" ELSE "return",
                      key |-> hp.key, values |-> hp.values, entry |-> g.entry,
                      flag_stop |-> hp.flag_stop, fresh |-> hp.fresh,
                      elapsed |-> elapsed, before |-> events]
          /\ IF hide
             THEN /\ idle_wakes' = AfterCancel(idle_wakes, timeout_id) + 1
                  /\ timeout_id' = TRUE
                  /\ UNCHANGED <<pc, elapsed, iter>>
             ELSE /\ pc' = "idle"
                  /\ elapsed' = 0
                  /\ iter' = IterReturn(iter)
                  /\ UNCHANGED <<timeout_id, idle_wakes>>
          /\ quit' = FALSE
          /\ IF hp.hooked /\ hp.d.close
             THEN /\ closed' = TRUE
                  /\ IF flag_alive
                     THEN /\ flag_alive' = FALSE
                          /\ downs' = downs + 1
                          /\ window_stack' = _window_pop(window_stack, "w")
                          /\ destroyed' = TRUE
                     ELSE UNCHANGED <<flag_alive, downs, window_stack,
                                      destroyed>>
                  /\ UNCHANGED <<cancels, peer>>
             ELSE UNCHANGED <<flag_alive, closeVars>>
    /\ UNCHANGED <<timeout, timeout_key, broken>>
    /\ UNCHANGED <<focus_wake, need_focus_widget, focused>>
    /\ NoFire
    /\ UNCHANGED buildVars

\* one pass of the loop body, from the return of root.mainloop()
ReadWake ==
    /\ pc = "mainloop"
    /\ quit
    /\ \/ ReadTimeout
       \/ ReadEmpty
       \/ ReadEvent

(***************************************************************************)
(* The application declares the elements of a layout and constructs the    *)
(* window.                                                                 *)
(***************************************************************************)
\* a constructor call with arguments a: Input(...), Frame(...), Radio(...)
DeclareElement(a) ==
    /\ built = "declaring"
    /\ Len(elems) < MaxElems
    /\ \/ a.parent = 0
       \/ /\ a.parent \in 1..Len(elems)
          /\ elems[a.parent].has_children
          /\ elems[a.parent].shape \in {"grid", "ragged"}
    /\ \E r \in {Construct(element_keys, next_id, a)},
          k \in {ClassKey(a.kind, a.key, a.text)} :
          /\ element_keys' = r.element_keys
          /\ next_id' = r.next_id
          /\ elems' = IF r.raised THEN elems ELSE Append(elems, r.elem)
          /\ init' = [op |-> IF r.raised THEN "raise" ELSE "ok",
                      kind |-> a.kind, key |-> k,
                      dup |-> /\ a.key.some
                              /\ \E j \in 1..Len(elems) :
                                    elems[j].explicit /\ elems[j].key = k,
                      exc |-> NoExc, calls |-> <<>>]
    /\ NoRead /\ NoCollect /\ NoFire
    /\ UNCHANGED <<events, event_hooks, flag_alive, timeout, timeout_key,
                   timeout_id, quit, pc, elapsed, wval, broken, regDone>>
    /\ UNCHANGED <<built, key_order, key_elements, radio_group_dict,
                   selected, last_rule, closeVars, loopVars>>

\* the window as the methods of the elements and _create_widget see it
WindowState ==
    [elems |-> elems, key_order |-> key_order, key_elements |-> key_elements,
     rg |-> radio_group_dict, events |-> events, last_values |-> last_values,
     error |-> FALSE, sel |-> selected,
     need_focus_widget |-> need_focus_widget, calls |-> <<>>, exc |-> NoExc]

\* Window(title, layout) (widgets.py 79-216): the widgets are created and
\* the window is pushed on the stack of open windows; an exception of
\* _create_widget (line 175) leaves the constructor.
\* init.calls: the prepare_create and create calls made, in their order
WindowInit(shape) ==
    /\ built = "declaring"
    /\ \E st \in {_create_widget(0, shape, WindowState, wval, broken)} :
          /\ elems' = st.elems
          /\ need_focus_widget' = st.need_focus_widget
          /\ init' = [NoInit EXCEPT !.op = "window", !.kind = shape,
                                   !.exc = st.exc, !.calls = st.calls]
          /\ selected' = st.sel
          /\ key_order' = st.key_order
          /\ key_elements' = st.key_elements
          /\ radio_group_dict' = st.rg
          /\ events' = st.events
          /\ last_values' = st.last_values
          /\ built' = IF st.error THEN "error" ELSE "built"
          /\ window_stack' = IF st.error THEN window_stack
                             ELSE _window_push(window_stack, "w")
    /\ gv' = NoGv
    /\ good' = good
    /\ NoRead /\ NoFire
    /\ UNCHANGED <<event_hooks, flag_alive, timeout, timeout_key, timeout_id,
                   quit, pc, elapsed, wval, broken, regDone>>
    /\ UNCHANGED <<element_keys, next_id, last_rule, destroyed, downs, cancels,
                   closed, peer, idle_wakes, focus_wake, focused, iter>>

\* radio.select(), or the user picks the radio button: the group variable
\* is written, and its trace enqueues an event
RadioSelect(i) ==
    /\ built = "built"
    /\ TkDispatching
    /\ CanEnqueue
    /\ elems[i].kind = "Radio"
    /\ \E st \in {select(i, WindowState, wval, broken)} :
          /\ radio_group_dict' = st.rg
          /\ selected' = st.sel
          /\ events' = st.events
          /\ last_values' = st.last_values
          /\ gv' = [state |-> "called", ret |-> st.last_values,
                    before |-> last_values]
    /\ good' = good
    /\ ExitMainloop
    /\ NoRead /\ NoFire
    /\ UNCHANGED <<event_hooks, flag_alive, timeout, timeout_key, timeout_id,
                   pc, elapsed, wval, broken, regDone>>
    /\ UNCHANGED <<element_keys, next_id, elems, built, init, key_order,
                   key_elements, last_rule, closeVars, loopVars>>

(***************************************************************************)
(* Window.close (widgets.py 676-700) and Window.cancel_close (710-712).    *)
(***************************************************************************)
MaxCancels == 2     \* calls of cancel_close

CancelClose ==
    /\ built = "built"
    /\ pc = "idle"
    /\ cancels < MaxCancels
    /\ flag_alive' = TRUE
    /\ cancels' = cancels + 1
    /\ NoRead /\ NoCollect /\ NoFire
    /\ UNCHANGED <<events, event_hooks, timeout, timeout_key, timeout_id, quit,
                   pc, elapsed, wval, broken, regDone>>
    /\ UNCHANGED <<buildVars, destroyed, window_stack, downs, closed, peer,
                   loopVars>>

\* close(): nothing but hiding when the flag is already false; otherwise
\* the flag falls, the window leaves the stack and is destroyed, and the
\* application quits with the last window.  destroy() of a destroyed window
\* raises, which close() catches
Close ==
    /\ built = "built"
    /\ pc = "idle"
    /\ IF ~flag_alive
       THEN UNCHANGED <<flag_alive, destroyed, window_stack, downs, quit>>
       ELSE /\ flag_alive' = FALSE
            /\ downs' = downs + 1
            /\ window_stack' = _window_pop(window_stack, "w")
            /\ destroyed' = TRUE
            /\ IF ~destroyed /\ Len(window_stack') = 0
               THEN ExitMainloop ELSE UNCHANGED quit
    /\ NoRead /\ NoCollect /\ NoFire
    /\ UNCHANGED <<events, event_hooks, timeout, timeout_key, timeout_id, pc,
                   elapsed, wval, broken, regDone>>
    /\ closed' = TRUE
    /\ UNCHANGED <<buildVars, cancels, peer, loopVars>>

(***************************************************************************)
(* _focus_window (widgets.py 828-835), the callback read schedules at line *)
(* 493.  Tk runs every pending idle callback in one sweep, so the pending  *)
(* _focus_window callbacks run one after the other; the first does what    *)
(* there is to do and the others find nothing left.                        *)
(***************************************************************************)
\* a slip: the pointer is not cleared
FocusWindow_keep ==
    /\ built = "built"
    /\ ~destroyed
    /\ TkDispatching
    /\ focus_wake
    /\ focus_wake' = FALSE
    /\ IF flag_alive /\ need_focus_widget # 0
       THEN /\ focused' = focused + 1
            /\ UNCHANGED need_focus_widget
            /\ ExitMainloop
            /\ last' = [NoPass EXCEPT !.act = "focus"]
       ELSE /\ UNCHANGED <<focused, need_focus_widget, quit>>
            /\ last' = [NoPass EXCEPT !.act = "nofocus"]
    /\ disp' = NoDispatch
    /\ NoCollect /\ NoFire
    /\ UNCHANGED <<events, event_hooks, flag_alive, timeout, timeout_key,
                   timeout_id, pc, elapsed, wval, broken, regDone>>
    /\ UNCHANGED <<buildVars, closeVars, idle_wakes, iter>>

FocusWindow ==
    /\ built = "built"
    /\ ~destroyed
    /\ TkDispatching
    /\ focus_wake
    /\ focus_wake' = FALSE
    /\ IF flag_alive /\ need_focus_widget # 0
       THEN /\ focused' = focused + 1
            /\ need_focus_widget' = 0
            /\ ExitMainloop
            /\ last' = [NoPass EXCEPT !.act = "focus"]
       ELSE /\ UNCHANGED <<focused, need_focus_widget, quit>>
            /\ last' = [NoPass EXCEPT !.act = "nofocus"]
    /\ disp' = NoDispatch
    /\ NoCollect /\ NoFire
    /\ UNCHANGED <<events, event_hooks, flag_alive, timeout, timeout_key,
                   timeout_id, pc, elapsed, wval, broken, regDone>>
    /\ UNCHANGED <<buildVars, closeVars, idle_wakes, iter>>

(***************************************************************************)
(* Window.event_iter (widgets.py 534-551): next() on its generator runs    *)
(* the loop test and, while the window is alive, the read call; the return *)
(* of that read is the yield (IterReturn in ReadTimeout and ReadEvent).    *)
(***************************************************************************)
\* a slip: the loop does not test is_alive()
IterNext_noguard(t, k) ==
    /\ iter \in {"new", "suspended"}
    /\ ReadCall(t, k)
    /\ iter' = "reading"
    /\ UNCHANGED flag_alive

IterNext(t, k) ==
    /\ iter \in {"new", "suspended"}
    /\ IF flag_alive
       THEN /\ ReadCall(t, k)
            /\ iter' = "reading"
            /\ UNCHANGED flag_alive
       ELSE /\ pc = "idle"
            /\ built = "built"
            /\ iter' = "done"
            /\ NoRead /\ NoCollect /\ NoFire
            /\ UNCHANGED <<events, event_hooks, flag_alive, timeout,
                           timeout_key, timeout_id, quit, pc, elapsed, wval,
                           broken, regDone>>
            /\ UNCHANGED <<buildVars, closeVars, idle_wakes, focus_wake,
                           need_focus_widget, focused>>

(***************************************************************************)
(* The window with its queue, hooks and read loop.                         *)
(***************************************************************************)
Next ==
    \/ \E t \in ShortTimeouts : ReadStart(t, TimeoutKey)
    \/ Tick
    \/ WindowIdleHandler
    \/ ReadWake
    \/ EventHandler("ok", Context)
    \/ WriteEventValue("ok", WriteValues)
    \/ BindEventHandler(BindHide)
    \/ \E name \in HookNames, h \in {"pass", "stop"} : RegisterEventHooks(name, h)
    \/ \E v \in Vals : UserEdit("a", v)

Spec == Init /\ [][Next]_vars

TypeOK ==
    /\ pc \in {"idle", "mainloop"}
    /\ Len(events) <= MaxQueue + MaxElems
    /\ broken \subseteq ValueKeys

(***************************************************************************)
(* The read loop against the clock: reads with every timeout, the close    *)
(* handler, hidden and plain events, no hooks.                             *)
(***************************************************************************)
NextTime ==
    \/ \E t \in Timeouts : ReadStart(t, TimeoutKey)
    \/ Tick
    \/ WindowIdleHandler
    \/ ReadWake
    \/ CloseHandler
    \/ WriteEventValue("ok", WriteValues)
    \/ \E b \in Bindings : BindEventHandler(b)

SpecTime == Init /\ [][NextTime]_vars

\* idle wakes keep firing, the loop body runs when the main loop ends, and
\* time advances
FairSpecTime ==
    /\ SpecTime
    /\ WF_vars(Tick)
    /\ WF_vars(WindowIdleHandler)
    /\ WF_vars(ReadWake)

(***************************************************************************)
(* Hook dispatch: every kind of handler, registered at any moment.         *)
(***************************************************************************)
NextHooks ==
    \/ \E t \in ShortTimeouts : ReadStart(t, TimeoutKey)
    \/ Tick
    \/ WindowIdleHandler
    \/ ReadWake
    \/ \E name \in HookNames : WriteEventValue(name, WriteValues)
    \/ \E name \in HookNames, h \in {"pass", "stop", "reg"} : RegisterEventHooks(name, h)

SpecHooks == Init /\ [][NextHooks]_vars

(***************************************************************************)
(* Value collection: every widget can change and every accessor can        *)
(* raise; get_values is called by _event_handler and by read on a stop.    *)
(***************************************************************************)
NextValues ==
    \/ \E t \in ShortTimeouts : ReadStart(t, TimeoutKey)
    \/ Tick
    \/ WindowIdleHandler
    \/ ReadWake
    \/ EventHandler("ok", Context)
    \/ RegisterEventHooks("ok", "stop")
    \/ \E k \in ValueKeys, v \in Vals : UserEdit(k, v)
    \/ \E k \in ValueKeys : AccessorFault(k)

SpecValues == Init /\ [][NextValues]_vars

(***************************************************************************)
(* The binding table of the button "ok" of the fixed layout: rules bound   *)
(* before and after the window is constructed, interactions firing, the    *)
(* widgets changing and their accessors failing.                           *)
(***************************************************************************)
OkElem == 2
NextBind ==
    \/ WindowInit("grid")
    \/ \E name \in EventNames, a \in RuleArgs : ElementBind(OkElem, name, a)
    \/ \E name \in EventNames, a \in RuleArgs : WindowBind(OkElem, name, a)
    \/ \E name \in EventNames : Fire(OkElem, name)
    \/ \E v \in Vals : UserEdit("a", v)
    \/ AccessorFault("b")
    \/ ReadStart(NoTimeout, TimeoutKey)
    \/ WindowIdleHandler
    \/ ReadWake

SpecBind == InitBind /\ [][NextBind]_vars

(***************************************************************************)
(* Construction: any layout of inputs, canvases and frames.                *)
(***************************************************************************)
BuildArgs ==
    {[kind |-> kind, key |-> key, text |-> "", parent |-> parent,
      shape |-> "", text_align |-> "left", group_id |-> NoGroup,
      default |-> FALSE, fails |-> FALSE] :
        kind \in {"Input", "Canvas"}, key \in KeyArgs, parent \in 0..MaxElems}
    \cup
    {[kind |-> "Frame", key |-> key, text |-> "", parent |-> parent,
      shape |-> shape, text_align |-> align, group_id |-> NoGroup,
      default |-> FALSE, fails |-> FALSE] :
        key \in KeyArgs, parent \in 0..MaxElems, shape \in Shapes,
        align \in {"left", "right"}}

NextBuild ==
    \/ \E a \in BuildArgs : DeclareElement(a)
    \/ \E shape \in Shapes : WindowInit(shape)

SpecBuild == InitDeclare /\ [][NextBuild]_vars

(***************************************************************************)
(* Radio groups: radio buttons of any group, selected at any moment.       *)
(***************************************************************************)
\* the n-th radio button is given the key "k<n>"
RadioArgs(n) ==
    {[kind |-> "Radio", key |-> Key("k" \o ToString(n)), text |-> "t",
      parent |-> 0, shape |-> "", text_align |-> "left", group_id |-> g,
      default |-> d, fails |-> FALSE] : g \in GroupArgs, d \in BOOLEAN}

NextRadio ==
    \/ \E a \in RadioArgs(Len(elems) + 1) : DeclareElement(a)
    \/ WindowInit("grid")
    \/ \E i \in 1..MaxElems : i <= Len(elems) /\ RadioSelect(i)
    \/ ReadStart(NoTimeout, TimeoutKey)
    \/ WindowIdleHandler
    \/ ReadWake

SpecRadio == InitDeclare /\ [][NextRadio]_vars

(***************************************************************************)
(* The first read of a window of radio buttons and input fields.           *)
(***************************************************************************)
\* the n-th element: a radio button, or an input field, with the key "k<n>"
FirstArgs(n) ==
    RadioArgs(n) \cup {Arg("Input", Key("k" \o ToString(n)), "")}

NextFirst ==
    \/ \E a \in FirstArgs(Len(elems) + 1) : DeclareElement(a)
    \/ WindowInit("grid")
    \/ \E i \in 1..MaxElems : i <= Len(elems) /\ RadioSelect(i)
    \/ ReadStart(NoTimeout, TimeoutKey)
    \/ WindowIdleHandler
    \/ ReadWake

SpecFirst == InitDeclare /\ [][NextFirst]_vars

(***************************************************************************)
(* Closing: the close handler, close, cancel_close and read.               *)
(***************************************************************************)
NextClose ==
    \/ CloseHandler
    \/ Close
    \/ CancelClose
    \/ \E t \in ShortTimeouts : ReadStart(t, TimeoutKey)
    \/ Tick
    \/ WindowIdleHandler
    \/ ReadWake

SpecClose == Init /\ [][NextClose]_vars

(***************************************************************************)
(* The event iterator: the application takes the events from the generator *)
(* or from read, while the user acts on the window and closes it.          *)
(***************************************************************************)
NextIter ==
    \/ \E t \in ShortTimeouts : IterNext(t, TimeoutKey)
    \/ ReadStart(NoTimeout, TimeoutKey)
    \/ Tick
    \/ WindowIdleHandler
    \/ ReadWake
    \/ CloseHandler
    \/ CancelClose
    \/ EventHandler("ok", Context)

SpecIter == Init /\ [][NextIter]_vars

(***************************************************************************)
(* The focus of the first read: reads, the idle callbacks, an interaction, *)
(* the close handler and cancel_close.                                     *)
(***************************************************************************)
NextFocus ==
    \/ ReadStart(NoTimeout, TimeoutKey)
    \/ FocusWindow
    \/ WindowIdleHandler
    \/ ReadWake
    \/ CloseHandler
    \/ CancelClose
    \/ EventHandler("ok", Context)

SpecFocus == Init /\ [][NextFocus]_vars

(***************************************************************************)
(* The wakes of the read loop: reads with and without timeout, hidden      *)
(* events, interactions and the close handler.                             *)
(***************************************************************************)
NextWake ==
    \/ \E t \in ShortTimeouts : ReadStart(t, TimeoutKey)
    \/ Tick
    \/ WindowIdleHandler
    \/ ReadWake
    \/ CloseHandler
    \/ EventHandler("ok", Context)
    \/ BindEventHandler(BindHide)

SpecWake == Init /\ [][NextWake]_vars

(***************************************************************************)
(* The close button: its hook closes the window inside the dispatch of its *)
(* event, while the application reads through the generator or directly    *)
(* and the user edits a field.                                             *)
(***************************************************************************)
NextHookClose ==
    \/ IterNext(NoTimeout, TimeoutKey)
    \/ ReadStart(NoTimeout, TimeoutKey)
    \/ WindowIdleHandler
    \/ ReadWake
    \/ EventHandler("ok", Context)
    \/ \E h \in {"close", "pass"} : RegisterEventHooks("ok", h)
    \/ \E v \in Vals : UserEdit("a", v)

SpecHookClose == Init /\ [][NextHookClose]_vars

(***************************************************************************)
(* Two windows.  The second window has its own queue (Window.__init__,     *)
(* widgets.py 113) and shares the root and its main loop with the first    *)
(* (get_root_window).  It has no hooks, no value-capable elements and is   *)
(* read without a timeout; the application, a single thread, is inside at  *)
(* most one read.                                                          *)
(***************************************************************************)
PeerContext == [x \in {"event"} |-> "p"]

\* peer.read(): lines 485-506, up to root.mainloop()
PeerReadStart ==
    /\ pc = "idle"
    /\ peer.pc = "idle"
    /\ peer' = [peer EXCEPT !.pc = "mainloop", !.wake = TRUE]
    /\ quit' = FALSE
    /\ NoRead /\ NoCollect /\ NoFire
    /\ UNCHANGED <<events, event_hooks, flag_alive, timeout, timeout_key,
                   timeout_id, pc, elapsed, wval, broken, regDone>>
    /\ UNCHANGED <<buildVars, destroyed, window_stack, downs, cancels, closed,
                   loopVars>>

\* the idle wake of the second window runs in the main loop: _exit_mainloop
PeerIdleHandler ==
    /\ pc = "mainloop" \/ peer.pc = "mainloop"
    /\ TkDispatching
    /\ peer.wake
    /\ peer' = [peer EXCEPT !.wake = FALSE]
    /\ quit' = TRUE
    /\ NoRead /\ NoCollect /\ NoFire
    /\ UNCHANGED <<events, event_hooks, flag_alive, timeout, timeout_key,
                   timeout_id, pc, elapsed, wval, broken, regDone>>
    /\ UNCHANGED <<buildVars, destroyed, window_stack, downs, cancels, closed,
                   loopVars>>

\* the idle wake of the first window runs in the main loop of the read of
\* the second
PeerLoopIdleHandler ==
    /\ peer.pc = "mainloop"
    /\ TkDispatching
    /\ timeout_id
    /\ timeout_id' = FALSE
    /\ idle_wakes' = idle_wakes - 1
    /\ quit' = TRUE
    /\ NoRead /\ NoCollect
    /\ UNCHANGED <<events, event_hooks, flag_alive, timeout, timeout_key, pc,
                   elapsed, wval, broken, regDone>>
    /\ UNCHANGED <<focus_wake, need_focus_widget, focused, iter>>
    /\ QuietLoop

\* peer._event_handler(key, ctx) (630-642): the entry goes to the queue of
\* the second window, and the shared main loop is told to quit
PeerEventHandler(key, ctx) ==
    /\ TkDispatching
    /\ Len(peer.events) < MaxQueue
    /\ peer' = [peer EXCEPT !.events = Put(@, key, ctx)]
    /\ ExitMainloop
    /\ NoRead /\ NoCollect /\ NoFire
    /\ UNCHANGED <<events, event_hooks, flag_alive, timeout, timeout_key,
                   timeout_id, pc, elapsed, wval, broken, regDone>>
    /\ UNCHANGED <<buildVars, destroyed, window_stack, downs, cancels, closed,
                   loopVars>>

\* a slip: the read of the second window takes from the queue of the first
\* when its own is empty
PeerReadWake_shared ==
    /\ peer.pc = "mainloop"
    /\ quit
    /\ quit' = FALSE
    /\ IF peer.events # <<>>
       THEN /\ peer' = [peer EXCEPT !.events = Get(@).rest,
                                    !.ret = Get(peer.events).entry,
                                    !.pc = "idle"]
            /\ UNCHANGED events
       ELSE IF events # <<>>
       THEN /\ peer' = [peer EXCEPT !.ret = Get(events).entry, !.pc = "idle"]
            /\ events' = Get(events).rest
       ELSE /\ peer' = [peer EXCEPT !.wake = TRUE]
            /\ UNCHANGED events
    /\ NoRead /\ NoCollect /\ NoFire
    /\ UNCHANGED <<event_hooks, flag_alive, timeout, timeout_key,
                   timeout_id, pc, elapsed, wval, broken, regDone>>
    /\ UNCHANGED <<buildVars, destroyed, window_stack, downs, cancels, closed,
                   loopVars>>

\* one pass of the loop body of peer.read(), from the return of
\* root.mainloop(): with its own queue empty the wake is scheduled again and
\* the main loop entered (518-519, 497-506); otherwise the oldest entry of its
\* own queue is returned (520-532)
PeerReadWake ==
    /\ peer.pc = "mainloop"
    /\ quit
    /\ quit' = FALSE
    /\ IF peer.events # <<>>
       THEN peer' = [peer EXCEPT !.events = Get(@).rest,
                                 !.ret = Get(peer.events).entry,
                                 !.pc = "idle"]
       ELSE peer' = [peer EXCEPT !.wake = TRUE]
    /\ NoRead /\ NoCollect /\ NoFire
    /\ UNCHANGED <<events, event_hooks, flag_alive, timeout, timeout_key,
                   timeout_id, pc, elapsed, wval, broken, regDone>>
    /\ UNCHANGED <<buildVars, destroyed, window_stack, downs, cancels, closed,
                   loopVars>>

NextTwo ==
    \/ ReadStart(NoTimeout, TimeoutKey)
    \/ WindowIdleHandler
    \/ ReadWake
    \/ EventHandler("ok", Context)
    \/ PeerReadStart
    \/ PeerIdleHandler
    \/ PeerLoopIdleHandler
    \/ PeerReadWake
    \/ PeerEventHandler("peer", PeerContext)

SpecTwo == Init /\ [][NextTwo]_vars

(***************************************************************************)
(* Events dispatched by the elements: the command of a menu entry          *)
(* (Menu._add_command, widgets.py 1575-1591) passes the swap marker, other *)
(* elements pass a context or none.                                        *)
(***************************************************************************)
\* the context of line 1591 for the entry with the key "menu"
MenuContext == [x \in {EG_SWAP_EVENT_NAME} |-> "menu"]
\* a context with an entry under the key of the field "a"
FieldContext == [x \in {"a", "event"} |-> "e"]
DispatchContexts == {Context, MenuContext, FieldContext, EmptyMap}

NextDispatch ==
    \/ \E ctx \in DispatchContexts : DispatchEvent("ok", ctx)
    \/ \E k \in ValueKeys, v \in Vals : UserEdit(k, v)
    \/ \E k \in ValueKeys : AccessorFault(k)
    \/ ReadStart(NoTimeout, TimeoutKey)
    \/ WindowIdleHandler
    \/ ReadWake

SpecDispatch == Init /\ [][NextDispatch]_vars

(***************************************************************************)
(* A browse element (FileBrowse, widgets.py 3244-3318) at the key "ok" of  *)
(* the fixed layout.  Its target is the element get_prev_widget finds      *)
(* (1141-1150): the field "a", or none.                                    *)
(***************************************************************************)
\* the handle name of lines 3277-3278
BROWSE_ACTION == "--browse_action" \o HIDE_SUFFIX
\* the rule bind_events stores for <Button-1> and <Return> (3275-3279)
BindBrowse == [elem |-> "ok", handle_name |-> BROWSE_ACTION, event_mode |-> "user"]
\* the name of the hook of line 3281
BrowseHook == "ok" \o BROWSE_ACTION
\* the keys of the target of the browse element; "": it has none
BrowseTargets == {"a", ""}

\* FileBrowse.create (3273-3284), run by the construction of the window,
\* before its first read: the hook show_dialog is registered under the name
\* of the hidden event
BrowseCreate(ee, target) ==
    /\ BrowseHook \notin DOMAIN event_hooks
    /\ pc = "idle" /\ ~timeout_id /\ events = <<>>
    /\ event_hooks' = register_event_hooks(event_hooks, BrowseHook,
                          [h |-> "browse", n |-> NumHooks(event_hooks) + 1,
                           key |-> "ok", enable_events |-> ee,
                           target |-> target])
    /\ NoRead /\ NoCollect
    /\ UNCHANGED <<events, flag_alive, timeout, timeout_key, timeout_id, quit,
                   pc, elapsed, wval, broken, regDone>>
    /\ Quiet

\* the user activates the browse element: the callback of its binding runs
BrowseActivate ==
    /\ BrowseHook \in DOMAIN event_hooks
    /\ BindEventHandler(BindBrowse)

NextBrowse ==
    \/ \E ee \in BOOLEAN, target \in BrowseTargets : BrowseCreate(ee, target)
    \/ ReadStart(NoTimeout, TimeoutKey)
    \/ WindowIdleHandler
    \/ ReadWake
    \/ BrowseActivate
    \/ \E v \in Vals : UserEdit("a", v)

SpecBrowse == Init /\ [][NextBrowse]_vars

\* Tk runs a pending idle wake, and a main loop told to quit returns
FairSpecBrowse ==
    /\ SpecBrowse
    /\ WF_vars(WindowIdleHandler)
    /\ WF_vars(ReadWake)

(***************************************************************************)
(* Layouts of any shape: inputs, buttons and frames, nested, aligned left  *)
(* or right, with elements whose create raises.                            *)
(***************************************************************************)
\* the n-th element, when it is a frame, is given the key "f<n>"
LayoutArgs(n) ==
    {[kind |-> "Input", key |-> NoKey, text |-> "", parent |-> parent,
      shape |-> "", text_align |-> "left", group_id |-> NoGroup,
      default |-> FALSE, fails |-> f] :
        parent \in 0..MaxElems, f \in BOOLEAN}
    \cup
    {[kind |-> "Button", key |-> NoKey, text |-> "OK", parent |-> parent,
      shape |-> "", text_align |-> "left", group_id |-> NoGroup,
      default |-> FALSE, fails |-> FALSE] :
        parent \in 0..MaxElems}
    \cup
    {[kind |-> "Frame", key |-> Key("f" \o ToString(n)), text |-> "",
      parent |-> parent, shape |-> sa[1], text_align |-> sa[2],
      group_id |-> NoGroup, default |-> FALSE, fails |-> FALSE] :
        parent \in 0..MaxElems,
        sa \in {<<"grid", "left">>, <<"grid", "right">>, <<"ragged", "left">>,
                <<"empty", "left">>}}

NextLayout ==
    \/ \E a \in LayoutArgs(Len(elems) + 1) : DeclareElement(a)
    \/ \E shape \in LayoutShapes : WindowInit(shape)

SpecLayout == InitDeclare /\ [][NextLayout]_vars

(***************************************************************************)
(* Properties of the read loop.                                            *)
(***************************************************************************)
\* the step that led to this state took an entry from the queue
Dequeued == last.act \in {"return", "hide"}

\* a hook of the dequeued entry signalled stop: the last handler the
\* dispatch called returned True
StopSignalled ==
    /\ Dequeued
    /\ disp.key = last.entry.key
    /\ disp.called # <<>>
    /\ HandleResult(disp.called[Len(disp.called)]) = "True"

\* C1: the queue is FIFO.  Every step that changes the queue either appends
\* one entry at its tail or takes the entry at its head; the entry a read
\* returns is the head of the queue, under its own name or, relabelled in
\* place, under its stopped name.  So an entry enqueued earlier is never
\* returned after one enqueued later.
C1_Fifo ==
    [][ \/ events' = events
        \/ /\ Len(events') = Len(events) + 1
           /\ SubSeq(events', 1, Len(events)) = events
        \/ /\ events # <<>>
           /\ events' = Tail(events)
           /\ last'.act \in {"return", "hide"}
           /\ last'.entry = Head(events)
           /\ last'.act = "return" =>
                 last'.key \in {Head(events).key,
                                Head(events).key \o STOPPED_SUFFIX} ]_vars

\* a relabelled entry is returned while an entry enqueued after it, and
\* different from it, is still waiting
C1_Witness ==
    /\ last.act = "return"
    /\ last.flag_stop
    /\ events # <<>>
    /\ events[1] # last.entry

\* C2: when a hook of the dequeued event A signals stop, read returns the
\* name A-stopped, and the values are those of a get_values pass made by
\* that read at dequeue time (the current values of the widgets when no
\* accessor raises), not the values stored in the queue entry.
C2_StopRecollects ==
    StopSignalled =>
        /\ last.act = "return"
        /\ last.key = last.entry.key \o STOPPED_SUFFIX
        /\ gv.state = "called"
        /\ last.values = gv.ret
        /\ broken = {} => last.values = Snapshot(wval)

\* the values stored at enqueue time are stale when the stop is signalled
C2_Witness ==
    /\ StopSignalled
    /\ "a" \in DOMAIN last.entry.values
    /\ last.entry.values["a"] # wval["a"]
    /\ last.values["a"] = wval["a"]

\* C3 (the claim as stated): an entry enqueued under a name that ends with
\* the hidden marker is never returned by read, under any name.
C3_HiddenNeverReturned ==
    last.act = "return" => ~EndsWith(last.entry.key, HIDE_SUFFIX)

\* C6: every entry a pass of read takes from the queue is returned by that
\* pass or has a name ending with the hidden marker; a pass takes at most
\* the head entry and leaves the other entries in their order.
C6_NoSilentDrop ==
    /\ Dequeued =>
          /\ last.before # <<>>
          /\ last.entry = Head(last.before)
          /\ events = Tail(last.before)
          /\ \/ /\ last.act = "return"
                /\ pc = "idle"
                /\ last.key \in {last.entry.key,
                                 last.entry.key \o STOPPED_SUFFIX}
             \/ EndsWith(last.entry.key, HIDE_SUFFIX)
    /\ last.act \in {"timeout", "empty"} => events = last.before

\* a hidden entry is consumed, a later entry stays queued
C6_Witness ==
    /\ last.act = "hide"
    /\ events # <<>>
    /\ pc = "mainloop"

\* C9: a non-timeout return gives the name and the values of the dequeued
\* entry unless a hook signalled stop; without a stop the name is not
\* changed and the pass of read makes no get_values pass.
C9_OnlyStopRelabels ==
    /\ (last.act = "return" /\ ~StopSignalled) =>
          /\ last.key = last.entry.key
          /\ last.values = last.entry.values
    /\ (Dequeued /\ last.key # last.entry.key) => StopSignalled
    /\ (last.act # "none" /\ gv.state = "called") => StopSignalled

\* hooks ran without a stop: the entry is returned as enqueued, with values
\* that the widgets no longer have
C9_Witness ==
    /\ last.act = "return"
    /\ disp.called # <<>>
    /\ ~StopSignalled
    /\ "a" \in DOMAIN last.values
    /\ last.values["a"] # wval["a"]

(***************************************************************************)
(* Properties of the timeout.                                              *)
(***************************************************************************)
\* C4: the timeout event is the pair (timeout_key, {}), and it is returned
\* only when more than the timeout has elapsed since the read started.
C4_TimeoutEvent ==
    last.act = "timeout" =>
        /\ timeout.some
        /\ last.key = timeout_key
        /\ last.values = EmptyMap
        /\ last.elapsed > timeout.ms * SubMs

\* a read with the largest timeout returns the timeout event
C4_Witness ==
    /\ last.act = "timeout"
    /\ timeout.ms = MaxTimeout
    /\ pc = "idle"

\* C5: a read with a timeout returns.
C5_TimeoutReadReturns ==
    (pc = "mainloop" /\ timeout.some) ~> (pc = "idle")

\* a read with a timeout has consumed a hidden event and waits again
C5_Witness ==
    /\ pc = "mainloop"
    /\ timeout.some
    /\ last.act = "hide"
    /\ events = <<>>

(***************************************************************************)
(* Properties of the hook dispatch.                                        *)
(***************************************************************************)
\* C7: the dispatch calls the handlers of the event from the first of the
\* list on, in the order of their registration, up to and including the
\* first that returns True; it returns true exactly when one did, and
\* otherwise has called every handler of the list.
C7_DispatchOrder ==
    disp.key # "" =>
        LET list == event_hooks[disp.key]
            n == Len(disp.called)
        IN /\ n <= Len(list)
           /\ disp.called = SubSeq(list, 1, n)
           /\ \A i, j \in 1..n : i < j => disp.called[i].n < disp.called[j].n
           /\ \A i \in 1..(n - 1) : HandleResult(disp.called[i]) # "True"
           /\ disp.flag_stop <=>
                 (n > 0 /\ HandleResult(disp.called[n]) = "True")
           /\ ~disp.flag_stop => n = Len(list)

\* a stop after another handler ran, with a handler left uncalled
C7_Witness ==
    /\ disp.key # ""
    /\ disp.flag_stop
    /\ Len(disp.called) >= 2
    /\ Len(event_hooks[disp.key]) > Len(disp.called)

\* C8 (the claim as stated): a handler registered for the event while its
\* dispatch is in progress is not called during that dispatch: the
\* dispatch calls only handlers that were registered when it started.
C8_RegisteredDuringDispatchWaits ==
    disp.key # "" =>
        \A i \in 1..Len(disp.called) :
            \E j \in 1..Len(disp.before) : disp.before[j] = disp.called[i]

(***************************************************************************)
(* Properties of the value collection.                                     *)
(***************************************************************************)
\* C10: when an accessor raises during a get_values pass, the pass returns
\* the values of the latest pass in which none raised (the empty map when
\* there was none) and leaves last_values as it was; a pass never returns
\* the values of only some of the value-capable elements.
C10_AllOrNothing ==
    gv.state = "called" =>
        /\ broken # {} =>
              /\ gv.ret = good
              /\ last_values = gv.before
              /\ last_values = good
        /\ DOMAIN gv.ret \in {{}, ValueKeys}

\* the accessor of the second element raises after the first element
\* changed: its current value is not in the returned map
C10_Witness ==
    /\ gv.state = "called"
    /\ broken = {"b"}
    /\ good # EmptyMap
    /\ gv.ret["a"] # wval["a"]

(***************************************************************************)
(* Properties of the binding table.                                        *)
(***************************************************************************)
\* the step that led to this state fired one callback, bound in that mode
FiredOne(mode) ==
    /\ fired.state = "fired"
    /\ Len(fired.rules) = 1
    /\ fired.rules[1].event_mode = mode

\* C11 (the claim as stated): firing an interaction bound in "system" mode
\* puts exactly one event in the queue, named by the key of the element,
\* whose values are the interaction context together with the values a
\* get_values call made at that moment returns.
C11_SystemFiring ==
    FiredOne("system") =>
        /\ Len(events) = Len(fired.before) + 1
        /\ SubSeq(events, 1, Len(fired.before)) = fired.before
        /\ events[Len(events)].key = fired.rules[1].elem
        /\ events[Len(events)].values =
              Overlay(SystemContext(fired.rules[1]),
                      get_values(wval, broken, fired.lastv).ret)

\* C12: firing an interaction bound in "user" mode puts exactly one event
\* in the queue, named by the key of the element followed by the handler
\* suffix, whose values are the interaction context alone; no accessor is
\* called and last_values is left as it was.
C12_UserFiring ==
    FiredOne("user") =>
        /\ events = Append(fired.before,
                        [key |-> fired.rules[1].elem \o fired.rules[1].handle_name,
                         values |-> Context])
        /\ fired.accessed = <<>>
        /\ ~fired.raised
        /\ last_values = fired.lastv

\* a user-mode firing while a widget holds a value that was never collected
\* and an accessor is failing
C12_Witness ==
    /\ FiredOne("user")
    /\ wval["a"] = "v1"
    /\ broken # {}
    /\ last_values = EmptyMap

\* C13 (the claim as stated): however often and whenever an interaction
\* name is bound on the element, one rule is left for it, the latest, and
\* one firing of the interaction puts exactly one event in the queue, built
\* from that rule.
C13_RebindOneEvent ==
    /\ \A n \in EventNames :
          <<OkElem, n>> \in DOMAIN last_rule =>
             /\ n \in DOMAIN elems[OkElem].bind_dict
             /\ elems[OkElem].bind_dict[n] = last_rule[<<OkElem, n>>]
             /\ elems[OkElem].created =>
                   elems[OkElem].widget_bind[n] = <<last_rule[<<OkElem, n>>]>>
    /\ fired.state = "fired" =>
          /\ Len(fired.rules) = 1
          /\ \E n \in EventNames :
                /\ <<OkElem, n>> \in DOMAIN last_rule
                /\ fired.rules[1] = last_rule[<<OkElem, n>>]
          /\ Len(events) = Len(fired.before) + 1
          /\ events[Len(events)].key =
                IF fired.rules[1].event_mode = "user"
                THEN fired.rules[1].elem \o fired.rules[1].handle_name
                ELSE fired.rules[1].elem

(***************************************************************************)
(* Properties of the construction.                                         *)
(***************************************************************************)
\* the keys of the index under which element i is stored
EntriesOf(i) == {k \in DOMAIN key_elements : key_elements[k] = i}

C16_IndexExactly ==
    built = "built" =>
        \A i \in 1..Len(elems) :
            (EntriesOf(i) # {}) <=> (elems[i].has_value \/ elems[i].explicit)

(***************************************************************************)
(* Properties of the radio groups.                                         *)
(***************************************************************************)
Radios == {i \in 1..Len(elems) : elems[i].kind = "Radio"}
Members(g) == {i \in Radios : elems[i].group_id = g}

\* C17: in every group with a selection, is_selected() is true of the
\* member selected last and false of every other member: the variable of
\* the group equals the value of exactly one member.
C17_LastSelected ==
    built = "built" =>
        \A i \in Radios :
            LET g == elems[i].group_id
            IN /\ is_selected(elems[i], radio_group_dict) <=>
                     (g \in DOMAIN selected /\ selected[g] = i)
               /\ g \in DOMAIN selected =>
                     Cardinality({j \in Members(g) :
                        elems[j].value = radio_group_dict[g].var}) = 1

\* the first member of a group was selected after a later member was
C17_Witness ==
    /\ built = "built"
    /\ gv.state = "called"
    /\ \E i, j \in Radios :
          /\ i < j
          /\ elems[i].group_id = elems[j].group_id
          /\ elems[j].default_value
          /\ selected[elems[i].group_id] = i

\* C18: every group id of the window has its own variable and counter; the
\* members of a group have, in the order of their creation, the values
\* 1, 2, 3, ..., the counter is the number of members, no value is the
\* sentinel 0, and the variable of a group in which nothing was selected
\* is the sentinel.
C18_GroupValues ==
    built = "built" =>
        /\ DOMAIN radio_group_dict = {elems[i].group_id : i \in Radios}
        /\ \A g \in DOMAIN radio_group_dict :
              /\ {elems[i].value : i \in Members(g)} =
                    1..Cardinality(Members(g))
              /\ radio_group_dict[g].counter = Cardinality(Members(g))
              /\ \A i, j \in Members(g) : i < j => elems[i].value < elems[j].value
              /\ g \notin DOMAIN selected => radio_group_dict[g].var = 0
              /\ g \in DOMAIN selected =>
                    radio_group_dict[g].var = elems[selected[g]].value

\* two groups, one with two members; a member of one group is selected and
\* the other group has no selection
C18_Witness ==
    /\ built = "built"
    /\ Cardinality(DOMAIN radio_group_dict) = 2
    /\ \E g \in DOMAIN radio_group_dict : Cardinality(Members(g)) = 2
    /\ Cardinality(DOMAIN selected) = 1

(***************************************************************************)
(* Properties of the alive flag.                                           *)
(***************************************************************************)
\* C19 (the claim as stated): the alive flag goes from true to false no
\* more than once in the lifetime of the window.
C19_FallsOnce == downs <= 1

\* C19 (amended): the alive flag goes from true to false no more than once
\* unless cancel_close is called: it falls at most once more often than
\* cancel_close was called, and while it is true at most as often.
C19_FallsOncePerCancel ==
    downs <= cancels + (IF flag_alive THEN 0 ELSE 1)

\* the flag fell, the close was cancelled, and the flag fell again
C19_Witness ==
    /\ downs = 2
    /\ cancels = 1
    /\ ~flag_alive

\* C20 (the claim as stated): the alive flag goes from false to true only
\* in cancel_close, and never is true again once close() has destroyed the
\* native window and taken it from the stack of open windows.
C20_NoRevival ==
    [][ /\ (~flag_alive /\ flag_alive') => cancels' = cancels + 1
        /\ (destroyed' /\ "w" \notin {window_stack'[x] : x \in 1..Len(window_stack')})
              => ~flag_alive' ]_vars

(***************************************************************************)
(* Properties of the event iterator.                                       *)
(***************************************************************************)
\* C21: event_iter calls read only while the window is alive and yields one
\* pair per read call: the generator starts a read only when it is resumed
\* (or started) with the alive flag true, it yields exactly when that read
\* returns, and when it is resumed with the flag false it ends without a
\* read call and never yields or reads again.
C21_IterReadsWhileAlive ==
    [][/\ (iter' = "reading" /\ iter # "reading")
            => /\ iter \in {"new", "suspended"}
               /\ flag_alive
               /\ pc = "idle" /\ pc' = "mainloop"
       /\ (iter = "reading" /\ pc = "mainloop" /\ pc' = "idle")
            => /\ iter' = "suspended"
               /\ last'.act \in {"return", "timeout"}
       /\ (iter = "reading" /\ pc' = "mainloop") => iter' = "reading"
       /\ (iter' = "suspended" /\ iter # "suspended")
            => iter = "reading" /\ pc = "mainloop" /\ pc' = "idle"
       /\ (iter' = "done" /\ iter # "done")
            => /\ iter \in {"new", "suspended"}
               /\ ~flag_alive
               /\ UNCHANGED <<pc, events, idle_wakes, focus_wake, timeout_id>>
       /\ iter = "done" => iter' = "done"]_vars

\* the generator yielded the close event and, resumed, ended without a read
C21_Witness ==
    /\ iter = "done"
    /\ ~flag_alive
    /\ pc = "idle"
    /\ downs = 1
    /\ events = <<>>

(***************************************************************************)
(* Properties of the wakes.                                                *)
(***************************************************************************)
\* C22: when the close handler fires while a read without timeout waits
\* with an empty queue (the close event is then the only entry of the queue
\* and the flag is down), that read returns the WINDOW_CLOSED event.
C22_CloseWakesRead ==
    (/\ pc = "mainloop"
     /\ ~timeout.some
     /\ ~flag_alive
     /\ Len(events) = 1
     /\ events[1].key = WINDOW_CLOSED)
    ~> (/\ pc = "idle"
        /\ last.act = "return"
        /\ last.key = WINDOW_CLOSED)

\* a read without timeout returned the close event, the only entry of the
\* queue, after the close handler had cancelled its wake
C22_Witness ==
    /\ pc = "idle"
    /\ ~timeout.some
    /\ last.act = "return"
    /\ last.key = WINDOW_CLOSED
    /\ Len(last.before) = 1
    /\ ~timeout_id
    /\ ~flag_alive

\* C23: at every moment at most one idle wake scheduled by the read loop is
\* pending, and it is the one recorded in timeout_id.
C23_OneWake ==
    /\ idle_wakes <= 1
    /\ idle_wakes = (IF timeout_id THEN 1 ELSE 0)

\* an interaction left the main loop while the wake was pending and a
\* hidden event stood first in the queue: the cycle cancelled that wake and
\* scheduled the one pending now
C23_Witness ==
    /\ pc = "mainloop"
    /\ last.act = "hide"
    /\ flag_alive
    /\ idle_wakes = 1
    /\ Len(events) = 1
    /\ events[1].key = "ok"

Malformed ==
    \/ init.kind # "grid"
    \/ \E i \in 1..Len(elems) : elems[i].has_children /\ elems[i].shape # "grid"

\* C25: when the layout of the window or of one of its containers is
\* malformed, the construction fails with a TkEasyError.
C25_MalformedRaisesTkEasyError ==
    (init.op = "window" /\ Malformed) =>
        built = "error" /\ init.exc.class = "TkEasyError"

\* the first element in traversal order that can be the focus target: a
\* value-capable element or an element keyed "OK" or "Yes" (0: none)
FirstFocusable(es) ==
    LET T == Traversal(0, es)
        F == {x \in 1..Len(T) :
                \/ es[T[x]].has_value
                \/ es[T[x]].key.some /\ es[T[x]].key.k \in {"OK", "Yes"}}
    IN IF F = {} THEN 0 ELSE T[CHOOSE x \in F : \A y \in F : x <= y]

\* C26: after the construction the focus target is the first value-capable
\* element in traversal order, or an element keyed "OK" or "Yes" that no
\* value-capable element precedes; without such an element there is none.
C26_FocusTarget ==
    (init.op = "window" /\ built = "built") =>
        need_focus_widget = FirstFocusable(elems)

\* C27: after the construction, in every row, the prev_element of an
\* element is the element declared immediately to its left (none for the
\* leftmost) and the next_element of that element points back.
C27_RowLinks ==
    (init.op = "window" /\ built = "built") =>
        \A p \in 0..Len(elems) :
            LET row == Row(p, elems)
            IN \A j \in 1..Len(row) :
                  /\ elems[row[j]].prev_element =
                         (IF j = 1 THEN 0 ELSE row[j - 1])
                  /\ j > 1 => elems[row[j - 1]].next_element = row[j]

\* C28: no prepare_create call of the construction follows a create call.
C28_PrepareBeforeCreate ==
    init.op = "window" =>
        \A x, y \in 1..Len(init.calls) :
            (init.calls[x][1] = "create" /\ init.calls[y][1] = "prepare")
                => y < x

PositionIn(T, i) == CHOOSE x \in 1..Len(T) : T[x] = i

\* C29: when the create of an element raises, the construction fails with
\* a TkEasyError that names the element, and no element after it in
\* traversal order is reached, created, registered in the key index or
\* packed; the element and the containers around it are not packed either.
C29_CreateFailureStops ==
    init.op = "window" =>
        \A i \in 1..Len(elems) :
            (elems[i].fails /\ elems[i].window) =>
                /\ built = "error"
                /\ init.exc.class = "TkEasyError"
                /\ init.exc.names # <<>>
                /\ init.exc.names[1] = i
                /\ ~elems[i].created
                /\ ~elems[i].packed
                /\ elems[i].parent # 0 => ~elems[elems[i].parent].packed
                /\ LET T == Traversal(0, elems)
                   IN \A x \in (PositionIn(T, i) + 1)..Len(T) :
                         /\ ~elems[T[x]].window
                         /\ ~elems[T[x]].created
                         /\ ~elems[T[x]].packed
                         /\ EntriesOf(T[x]) = {}

\* the create of an element inside a container raised, with an element
\* after the container in the row of the window
C29_Witness ==
    /\ init.op = "window"
    /\ built = "error"
    /\ \E i \in 1..Len(elems) :
          /\ elems[i].fails /\ elems[i].window
          /\ elems[i].parent # 0
          /\ init.exc.names = <<i, elems[i].parent>>
          /\ elems[elems[i].parent].parent = 0
          /\ \E j \in 1..Len(elems) : j > elems[i].parent /\ elems[j].parent = 0

(***************************************************************************)
(* Properties of the window stack.                                         *)
(***************************************************************************)
\* C30: after close() has returned on the window, the window is no longer
\* in the stack of open windows.
C30_ClosedLeavesStack ==
    closed => \A x \in 1..Len(window_stack) : window_stack[x] # "w"

(***************************************************************************)
(* Properties of the containment of accessor errors.                       *)
(***************************************************************************)
\* C31 (the claim as stated): when an interaction bound in "system" mode
\* fires while an accessor raises, no exception leaves the callback and the
\* event is put in the queue all the same.
C31_AccessorFaultContained ==
    (FiredOne("system") /\ broken # {}) =>
        /\ ~fired.raised
        /\ Len(events) = Len(fired.before) + 1
        /\ events[Len(events)].key = fired.rules[1].elem

\* C32: a get_values pass in which no accessor raises returns the current
\* value of every value-capable element of the key index and of no other
\* element, and last_values is that map after the pass.
C32_SuccessfulPass ==
    (gv.state = "called" /\ broken = {}) =>
        /\ DOMAIN gv.ret = {k \in Keys : has_value[k]}
        /\ "ok" \notin DOMAIN gv.ret
        /\ \A k \in DOMAIN gv.ret : gv.ret[k] = wval[k]
        /\ last_values = gv.ret

\* a successful pass replaced a cache that held other values
C32_Witness ==
    /\ gv.state = "called"
    /\ broken = {}
    /\ gv.before # EmptyMap
    /\ gv.before # gv.ret
    /\ last_values = gv.ret

(***************************************************************************)
(* Properties of a close made by a hook.                                   *)
(***************************************************************************)
\* the dispatch made by the step called a handler that closes the window,
\* and no handler signalled stop
ClosedByHook ==
    /\ ~disp.flag_stop
    /\ \E i \in 1..Len(disp.called) : disp.called[i].h = "close"

\* C33: when a hook closes the window during the dispatch without
\* signalling stop, the read returns the dequeued event under its own name
\* with the values it was enqueued with, the close puts nothing in the
\* queue, the window is not alive when read returns, and a generator that
\* made the read has yielded and, when resumed, ends without a read.
C33_HookCloseReturnsEvent ==
    [][/\ (last'.act = "return" /\ ClosedByHook') =>
             /\ pc = "mainloop" /\ pc' = "idle"
             /\ last'.key = events[1].key
             /\ last'.values = events[1].values
             /\ events' = Tail(events)
             /\ ~flag_alive'
             /\ closed'
             /\ window_stack' = <<>>
             /\ iter = "reading" => iter' = "suspended"
       /\ (iter = "suspended" /\ ~flag_alive /\ iter' # iter) =>
             /\ iter' = "done"
             /\ UNCHANGED <<pc, events, idle_wakes>>]_vars

\* the generator yielded the event of the close button, whose values are
\* those of the enqueue and no longer those of the widgets, and then ended
C33_Witness ==
    /\ iter = "done"
    /\ closed
    /\ ~flag_alive
    /\ events = <<>>
    /\ downs = 1
    /\ wval["a"] = "v1"
    /\ last_values["a"] = "v0"

(***************************************************************************)
(* Properties of a browse element.                                         *)
(***************************************************************************)
\* the browse element enqueues its change event in this dispatch: it has
\* enable_events set and a target, and the picker gave the non-empty answer
BrowseEnqueues(handle, picked) ==
    /\ handle.enable_events
    /\ handle.target # ""
    /\ picked \notin {NoPick, ""}

\* the steps of a browse element: its activation, the pass of read over its
\* hidden event, and the returns of read
BrowseSteps ==
    /\ fired'.state = "fired" =>
           /\ Len(events') = Len(events) + 1
           /\ events'[Len(events')].key = BrowseHook
           /\ IsHidden(BrowseHook)
           /\ BrowseHook \in DOMAIN event_hooks
           /\ event_hooks[BrowseHook][1].h = "browse"
           /\ pc' = pc
    /\ (last'.act = "hide" /\ last'.entry.key = BrowseHook) =>
           /\ disp'.called = event_hooks[BrowseHook]
           /\ pc' = "mainloop"
           /\ LET handle == event_hooks[BrowseHook][1]
                  picked == disp'.picked
              IN IF BrowseEnqueues(handle, picked)
                 THEN /\ wval' = [wval EXCEPT ![handle.target] = picked]
                      /\ events' = Append(Tail(events),
                             [key |-> "ok",
                              values |-> Overlay(BrowseContext(picked), wval')])
                 ELSE events' = Tail(events)
    /\ last'.act = "return" =>
           /\ ~IsHidden(last'.key)
           /\ last'.key = "ok"
           /\ last'.values["event_type"] = "change"
           /\ last'.values["event"] = last'.values["a"]
           /\ events # <<>> /\ last'.entry = Head(events)

\* C34: activating a browse element enqueues a hidden event whose hook opens
\* the picker; the pending read never returns the hidden event; the pass
\* over it puts the change event, named by the key of the browse element,
\* in the queue exactly when enable_events is set, a target exists and the
\* answer of the picker is non-empty, the target holding the answer before
\* the event is enqueued, and otherwise read keeps waiting; the change
\* event in the queue is returned by the read.
C34_Browse ==
    /\ [][BrowseSteps]_vars
    /\ (pc = "mainloop" /\ events # <<>> /\ Head(events).key = "ok")
           ~> (last.act = "return" /\ last.key = "ok")

C34_Witness ==
    /\ last.act = "return"
    /\ last.key = "ok"
    /\ last.values = Overlay(BrowseContext("v1"), [wval EXCEPT !["a"] = "v1"])
    /\ wval["a"] = "v0"
    /\ event_hooks[BrowseHook][1].enable_events

(***************************************************************************)
(* Properties of Window._event_handler.                                    *)
(***************************************************************************)
\* the map m without the key k
Without(m, k) == [x \in DOMAIN m \ {k} |-> m[x]]

\* C35: _event_handler(key, context) enqueues exactly one entry; its values
\* are the context overlaid with what get_values returned at that moment,
\* the value of an element winning over a context entry of the same key;
\* if the context carries the swap marker, the entry is named by the value
\* of the marker and the marker is not among the values.
C35_EventHandlerEntry ==
    fired.state = "dispatched" =>
        LET key == fired.rules[1].elem
            ctx == fired.rules[1].ctx
            e == events[Len(events)]
        IN /\ events = Append(fired.before, e)
           /\ gv.state = "called"
           /\ gv.ret = IF broken = {} THEN wval ELSE fired.lastv
           /\ \A k \in DOMAIN gv.ret : e.values[k] = gv.ret[k]
           /\ IF EG_SWAP_EVENT_NAME \in DOMAIN ctx
              THEN /\ e.key = ctx[EG_SWAP_EVENT_NAME]
                   /\ e.values = Without(Overlay(ctx, gv.ret), EG_SWAP_EVENT_NAME)
              ELSE /\ e.key = key
                   /\ e.values = Overlay(ctx, gv.ret)

C35_Witness ==
    /\ fired.state = "dispatched"
    /\ fired.rules[1].ctx = FieldContext
    /\ wval["a"] = "v1"
    /\ events[Len(events)].values["a"] = "v1"
    /\ Len(events) = 2
    /\ events[1].key = "menu"

(***************************************************************************)
(* Properties of the queue across a timeout.                               *)
(***************************************************************************)
\* C36: a read that returns the timeout event removes nothing from the
\* queue; when the timeout is due at a wake-up with events queued, the read
\* returns the timeout event, and the queued events stay, in their order.
C36_TimeoutKeepsQueue ==
    [][/\ last'.act = "timeout" => events' = events
       /\ (pc = "mainloop" /\ pc' = "idle" /\ TimeoutDue(timeout, elapsed)) =>
              /\ last'.act = "timeout"
              /\ last'.key = timeout_key
              /\ events' = events]_vars

\* the timeout event was returned over two queued events
C36_Witness ==
    /\ last.act = "timeout"
    /\ Len(last.before) = 2
    /\ events = last.before
    /\ pc = "idle"

(***************************************************************************)
(* Properties of two windows.                                              *)
(***************************************************************************)
\* the entries of a queue are all named key
AllNamed(q, key) == \A i \in 1..Len(q) : q[i].key = key

\* the steps of the two reads: a return takes the oldest entry of the
\* reader's own queue and leaves the other queue alone; a wake-up that finds
\* the reader's own queue empty takes nothing and the read goes on waiting
TwoSteps ==
    /\ last'.act = "return" =>
           /\ events # <<>> /\ last'.entry = Head(events)
           /\ peer'.events = peer.events
    /\ (peer.pc = "mainloop" /\ peer'.pc = "idle") =>
           /\ peer.events # <<>> /\ peer'.ret = Head(peer.events)
           /\ events' = events
    /\ (pc = "mainloop" /\ quit /\ ~quit' /\ events = <<>>) =>
           /\ pc' = "mainloop"
           /\ last'.act = "empty"
           /\ peer'.events = peer.events
    /\ (peer.pc = "mainloop" /\ quit /\ ~quit' /\ peer.events = <<>>) =>
           /\ peer'.pc = "mainloop"
           /\ peer'.ret = peer.ret
           /\ events' = events

\* C37: with two windows open an event enqueued on one window is never
\* returned by a read of the other, and a wake-up of a read caused by an
\* event of the other window removes nothing from the queue of the other
\* window and returns nothing.
C37_Isolated ==
    /\ [](/\ AllNamed(events, "ok")
          /\ AllNamed(peer.events, "peer")
          /\ last.act = "return" => last.key = "ok"
          /\ peer.ret.key \in {NoEntry.key, "peer"})
    /\ [][TwoSteps]_vars

\* the main loop of the read of the second window has been told to quit by
\* an event of the first window: no idle wake has run (the wake of the
\* second window is pending, the first window has made no read), and the
\* queue of the second window is empty
C37_Witness ==
    /\ peer.pc = "mainloop"
    /\ quit
    /\ peer.wake
    /\ ~focus_wake /\ ~timeout_id
    /\ peer.events = <<>>
    /\ Len(events) = 1

(***************************************************************************)
(* Properties of the events of radio groups.                               *)
(***************************************************************************)
\* the member of the group that was created first
FirstMember(g) == CHOOSE i \in Members(g) : \A j \in Members(g) : i <= j

\* the event the trace of the group g puts in the queue
IsGroupEvent(e, g) ==
    /\ e.key = elems[FirstMember(g)].key.k
    /\ e.values["event_type"] = "change"

\* C38: every write of the variable of a radio group, whichever member is
\* selected, puts exactly one event in the queue of the window, named by
\* the key of the member of the group that was created first.
C38_OneEventPerWrite ==
    [][gv'.state = "called" =>
          \E i \in Radios :
             /\ selected' = Overlay(selected, [x \in {elems[i].group_id} |-> i])
             /\ radio_group_dict' =
                   [radio_group_dict EXCEPT ![elems[i].group_id] =
                       [@ EXCEPT !.var = elems[i].value]]
             /\ Len(events') = Len(events) + 1
             /\ SubSeq(events', 1, Len(events)) = events
             /\ IsGroupEvent(events'[Len(events')], elems[i].group_id)]_vars

\* the third member of a group was selected, the first names the event
C38_Witness ==
    /\ gv.state = "called"
    /\ Len(elems) = 3
    /\ Members(elems[1].group_id) = {1, 2, 3}
    /\ selected[elems[1].group_id] = 3
    /\ events[Len(events)].key = "k1"

(***************************************************************************)
(* Properties of the queue of a new window.                                *)
(***************************************************************************)
\* the radio buttons declared with default=True
Defaults == {i \in Radios : elems[i].default_value}

\* the queue holds one change event for each radio button declared with
\* default=True, in the order of their creation, and nothing else
DefaultEventsOnly ==
    /\ Len(events) = Cardinality(Defaults)
    /\ \A i \in Defaults :
          IsGroupEvent(events[Cardinality({j \in Defaults : j <= i})],
                       elems[i].group_id)

\* C39: when the constructor of the window returns, the queue holds one
\* change event for each radio button declared with default=True, in the
\* order of their creation, and nothing else; with an empty queue a read
\* without a timeout stays in the main loop.
C39_NewWindowQueue ==
    [][/\ (built = "declaring" /\ built' = "built") => DefaultEventsOnly'
       /\ (pc = "mainloop" /\ events = <<>>) => pc' = "mainloop"]_vars

\* a window of an input field, a radio button without and one with
\* default=True: one event is queued
C39_Witness ==
    /\ built = "built"
    /\ ~timeout_id
    /\ gv.state = "none"
    /\ Len(elems) = 3
    /\ elems[1].kind = "Input"
    /\ Defaults = {3}
    /\ Radios = {2, 3}
    /\ Len(events) = 1
====
